---- MODULE Spec2Model ----
(***************************************************************************)
(* css-transform-calculator: the TransformMatrix value type, the matrix    *)
(* operations (matrixVectorProduct, dotProduct, invert),                   *)
(* decomposeTransformation, the CSS parser parseCss and the                *)
(* CssTransformCalculator.                                                 *)
(*                                                                         *)
(* Numbers are exact rationals <<n, d>> in lowest terms with d > 0, so     *)
(* that === on numbers is equality of the pairs.  The arithmetic is the    *)
(* exact arithmetic the double-precision code approximates; Math.sqrt of a *)
(* non-square is rounded down to 1/SqrtPrec.                               *)
(***************************************************************************)
EXTENDS Integers, Sequences, FiniteSets, TLC

VARIABLES
    arrays,   \* the heap of JS arrays: address -> sequence of numbers
    objs,     \* the heap of TransformMatrix objects: id -> [_values, _type]
    ctor,     \* the six arguments the matrix under study was constructed with
    made,     \* how it was made: the constructor or a factory, and its inputs
    result,   \* what the last operation returned to the caller
    css,      \* the CSS parser: the input string and what the last call gave
    calc      \* the CssTransformCalculator instance and its last query

vars == <<arrays, objs, ctor, made, result, css, calc>>

(* ------------------------------ bounds -------------------------------- *)
MaxLin == 2       \* a, b, c, d are drawn from -1 .. MaxLin
MaxTr == 1        \* e, f are drawn from 0 .. MaxTr
MaxPt == 1        \* point coordinates are drawn from 0 .. MaxPt
SqrtPrec == 64    \* Math.sqrt of a non-square has 1/SqrtPrec resolution

(* --------------------------- exact numbers ---------------------------- *)
Abs(n) == IF n < 0 THEN -n ELSE n

RECURSIVE GCD(_, _)
GCD(x, y) == IF y = 0 THEN x ELSE GCD(y, x % y)

Norm(n, d) ==
    LET g == GCD(Abs(n), Abs(d))
        s == IF d < 0 THEN -1 ELSE 1
    IN  <<(s * n) \div g, (s * d) \div g>>

R(n) == <<n, 1>>
Zero == R(0)
One == R(1)
Add(p, q) == Norm(p[1] * q[2] + q[1] * p[2], p[2] * q[2])
Sub(p, q) == Norm(p[1] * q[2] - q[1] * p[2], p[2] * q[2])
Mul(p, q) == Norm(p[1] * q[1], p[2] * q[2])
Div(p, q) == Norm(p[1] * q[2], p[2] * q[1])
Neg(p) == <<-p[1], p[2]>>
Lt(p, q) == p[1] * q[2] < q[1] * p[2]
Leq(p, q) == p[1] * q[2] <= q[1] * p[2]

(* ------------------- TransformMatrix: classification ------------------ *)
NULL == "null"

areZero(arr) == \A i \in DOMAIN arr : arr[i] = Zero
areOne(arr) == \A i \in DOMAIN arr : arr[i] = One
areNotZero(arr) == \A i \in DOMAIN arr : arr[i] # Zero
areSinCos(arr) == \A i \in DOMAIN arr : Leq(R(-1), arr[i]) /\ Leq(arr[i], One)

\* _getType with the scale test moved in front of the identity test
_getType_scaleFirst(v) ==
    LET a == v[1]  b == v[2]  c == v[3]  d == v[4]  e == v[5]  f == v[6]
    IN  IF areZero(<<b, c, e, f>>) THEN "scale"
        ELSE IF areOne(<<a, d>>) /\ areZero(<<b, c, e, f>>) THEN "identity"
        ELSE IF areNotZero(<<e, f>>) /\ areOne(<<a, b>>) /\ areZero(<<c, d>>)
            THEN "translate"
        ELSE IF areOne(<<a, d>>) /\ areNotZero(<<c>>) /\ areZero(<<b, e, f>>)
            THEN "skewX"
        ELSE IF areOne(<<a, d>>) /\ areNotZero(<<b>>) /\ areZero(<<c, e, f>>)
            THEN "skewY"
        ELSE IF areSinCos(<<a, b, c, d>>) /\ areZero(<<e, f>>) /\ a = d
                /\ b = Mul(c, R(-1))
            THEN "rotate"
        ELSE "composite"

_getType(v) ==
    LET a == v[1]  b == v[2]  c == v[3]  d == v[4]  e == v[5]  f == v[6]
    IN  IF areOne(<<a, d>>) /\ areZero(<<b, c, e, f>>) THEN "identity"
        ELSE IF areNotZero(<<e, f>>) /\ areOne(<<a, b>>) /\ areZero(<<c, d>>)
            THEN "translate"
        ELSE IF areZero(<<b, c, e, f>>) THEN "scale"
        ELSE IF areOne(<<a, d>>) /\ areNotZero(<<c>>) /\ areZero(<<b, e, f>>)
            THEN "skewX"
        ELSE IF areOne(<<a, d>>) /\ areNotZero(<<b>>) /\ areZero(<<c, e, f>>)
            THEN "skewY"
        ELSE IF areSinCos(<<a, b, c, d>>) /\ areZero(<<e, f>>) /\ a = d
                /\ b = Mul(c, R(-1))
            THEN "rotate"
        ELSE "composite"

\* An object as the operators below see it: its values and its memo.
Obj(v, t) == [v |-> v, t |-> t]

\* get type(): the memo when set, else _getType() of the values
type(o) == IF o.t = NULL THEN _getType(o.v) ELSE o.t

\* a read of .type that stores 'composite' whatever the values are
typed_composite(o) == Obj(o.v, "composite")

\* the object after a read of .type (the memo is filled)
typed(o) == Obj(o.v, type(o))

isIdentity(o) == type(o) = "identity"

\* get matrix(): a new 3x3 array
matrix(v) ==
    <<  <<v[1], v[3], v[5]>>,
        <<v[2], v[4], v[6]>>,
        <<Zero, Zero, One>>  >>

fromArray(M) == <<M[1][1], M[2][1], M[1][2], M[2][2], M[1][3], M[2][3]>>

\* the constructor: this._values = [a, b, c, d, e, f]
TransformMatrix(a, b, c, d, e, f) == <<a, b, c, d, e, f>>

\* clone() with b and c exchanged
clone_transposed(v) == TransformMatrix(v[1], v[3], v[2], v[4], v[5], v[6])

clone(v) == TransformMatrix(v[1], v[2], v[3], v[4], v[5], v[6])

identity == TransformMatrix(One, Zero, Zero, One, Zero, Zero)
fromTranslation(tx, ty) == TransformMatrix(One, Zero, Zero, One, tx, ty)
fromScale(sx, sy) == TransformMatrix(sx, Zero, Zero, sy, Zero, Zero)

(* ---------------------------- matrixOperations ------------------------ *)
\* v1.reduce((sum, a, i) => sum + a * v2[i], 0) over three elements
product(v1, v2) ==
    Add(Add(Add(Zero, Mul(v1[1], v2[1])), Mul(v1[2], v2[2])), Mul(v1[3], v2[3]))

\* the vector multiplied with the columns of the matrix
matrixVectorProduct_columns(v, vector) ==
    LET M == matrix(v)
    IN  [r \in 1..3 |-> product(vector, <<M[1][r], M[2][r], M[3][r]>>)]

matrixVectorProduct(v, vector) ==
    LET M == matrix(v)
    IN  [r \in 1..3 |-> product(vector, M[r])]

\* the rows of M1 multiplied with the rows of M2 (M2 never transposed)
dotProduct_rowsByRows(v1, v2) ==
    LET M1 == matrix(v1)
        M2 == matrix(v2)
        rslt == [r \in 1..3 |-> [j \in 1..3 |-> product(M1[r], M2[j])]]
    IN  fromArray(rslt)

\* the operands taken in the other order
dotProduct_reversed(v1, v2) ==
    LET M1 == matrix(v2)
        M2 == matrix(v1)
        M2t == [j \in 1..3 |-> <<M2[1][j], M2[2][j], M2[3][j]>>]
        rslt == [r \in 1..3 |-> [j \in 1..3 |-> product(M1[r], M2t[j])]]
    IN  fromArray(rslt)

dotProduct(v1, v2) ==
    LET M1 == matrix(v1)
        M2 == matrix(v2)
        M2t == [j \in 1..3 |-> <<M2[1][j], M2[2][j], M2[3][j]>>]
        rslt == [r \in 1..3 |-> [j \in 1..3 |-> product(M1[r], M2t[j])]]
    IN  fromArray(rslt)

(* invert: Gauss-Jordan elimination on C = matrix1.matrix, mirrored on I *)
swapRows(A, i, ii) ==
    [r \in 1..3 |-> IF r = i THEN A[ii] ELSE IF r = ii THEN A[i] ELSE A[r]]

\* the search of the rows below a zero pivot skipped: never swaps
lowerRow_none(C, i) == 0

\* the first row below the i'th with a non-0 in the i'th column, 0 if none
lowerRow(C, i) ==
    LET rows == {ii \in (i + 1)..3 : C[ii][i] # Zero}
    IN  IF rows = {} THEN 0 ELSE CHOOSE ii \in rows : \A k \in rows : ii <= k

scaleRow(A, i, e) ==
    [r \in 1..3 |-> IF r = i THEN [j \in 1..3 |-> Div(A[i][j], e)] ELSE A[r]]

\* only the rows below the pivot are cleared (plain Gaussian elimination)
subtractRow_belowOnly(A, C, i) ==
    [r \in 1..3 |->
        IF r <= i THEN A[r]
        ELSE [j \in 1..3 |-> Sub(A[r][j], Mul(C[r][i], A[i][j]))]]

\* A[ii][j] -= e * A[i][j] for every row ii # i, with e = C[ii][i]
subtractRow(A, C, i) ==
    [r \in 1..3 |->
        IF r = i THEN A[r]
        ELSE [j \in 1..3 |-> Sub(A[r][j], Mul(C[r][i], A[i][j]))]]

\* one pass of the loop body "for (let i = 0; i < 3; i++)"
pivot(st, i) ==
    IF st.threw THEN st
    ELSE
        LET ii == IF st.C[i][i] = Zero THEN lowerRow(st.C, i) ELSE 0
            C1 == IF ii # 0 THEN swapRows(st.C, i, ii) ELSE st.C
            I1 == IF ii # 0 THEN swapRows(st.I, i, ii) ELSE st.I
            e == C1[i][i]
        IN  IF e = Zero THEN [C |-> C1, I |-> I1, threw |-> TRUE]
            ELSE
                LET C2 == scaleRow(C1, i, e)
                    I2 == scaleRow(I1, i, e)
                IN  [C |-> subtractRow(C2, C2, i),
                     I |-> subtractRow(I2, C2, i),
                     threw |-> FALSE]

\* threw: 'matrix not invertible'; otherwise v = fromArray(I), and I itself
invert(v) ==
    LET st0 == [C |-> matrix(v), I |-> matrix(identity), threw |-> FALSE]
        st == pivot(pivot(pivot(st0, 1), 2), 3)
    IN  IF st.threw THEN [threw |-> TRUE, v |-> <<>>, I |-> <<>>]
        ELSE [threw |-> FALSE, v |-> fromArray(st.I), I |-> st.I]

(* --------------------------- TransformMatrix -------------------------- *)
\* get cssVector() handing out this._values itself
cssVector_noCopy(as, this) == [arrays |-> as, ret |-> this._values]

\* get cssVector(): [].concat(this._values), a new array at a new address
cssVector(as, this) ==
    [arrays |-> Append(as, as[this._values]), ret |-> Len(as) + 1]

\* transforms.reduce(...) without an initial value: the first element is
\* the first product, each later element is multiplied in by dotProduct
\* (which reads both .type); fresh tells whether the product is a new
\* object or the list's own first element, handed back untouched
RECURSIVE composeFrom(_, _, _)
composeFrom(acc, os, k) ==
    IF k > Len(os) THEN acc
    ELSE composeFrom([fresh |-> TRUE,
                      obj |-> Obj(dotProduct(acc.obj.v, os[k].v), NULL)],
                     os, k + 1)

compose(os) == composeFrom([fresh |-> FALSE, obj |-> os[1]], os, 2)

(* ------------------------------- Math --------------------------------- *)
\* floor of the square root of a natural number (Newton's iteration)
RECURSIVE Newton(_, _)
Newton(n, x) ==
    LET y == (x + n \div x) \div 2
    IN  IF y >= x THEN x ELSE Newton(n, y)

ISqrt(n) == IF n <= 0 THEN 0 ELSE Newton(n, n)

\* Math.sqrt: exact on squares of rationals, else rounded down to 1/SqrtPrec
Math_sqrt(q) ==
    LET rn == ISqrt(q[1])
        rd == ISqrt(q[2])
    IN  IF rn * rn = q[1] /\ rd * rd = q[2] THEN Norm(rn, rd)
        ELSE Norm(ISqrt((q[1] * SqrtPrec * SqrtPrec) \div q[2]), SqrtPrec)

\* An angle is kept by what the code goes on to ask of it: the result of
\* Math.atan, which the code only hands to Math.tan, by its tangent; every
\* other angle by the pair [cos, sin] of its direction.
Math_PI_2 == [cos |-> Zero, sin |-> One]
Math_PI_4 == [cos |-> Math_sqrt(<<1, 2>>), sin |-> Math_sqrt(<<1, 2>>)]
Math_atan(q) == [tan |-> q]
Math_acos(q) == [cos |-> q, sin |-> Math_sqrt(Sub(One, Mul(q, q)))]
Math_cos(theta) == theta.cos
Math_sin(theta) == theta.sin
Math_tan(theta) ==
    IF "tan" \in DOMAIN theta THEN theta.tan ELSE Div(theta.sin, theta.cos)

\* -1 * theta
minus(theta) == [cos |-> theta.cos, sin |-> Neg(theta.sin)]

\* (Math.PI / 2) - theta
quarterTurnMinus(theta) == [cos |-> theta.sin, sin |-> theta.cos]

fromRotate(theta) ==
    TransformMatrix(Math_cos(theta), Math_sin(theta), Math_sin(minus(theta)),
                    Math_cos(theta), Zero, Zero)

fromSkewX(theta) == TransformMatrix(One, Zero, Math_tan(theta), One, Zero, Zero)
fromSkewY(theta) == TransformMatrix(One, Math_tan(theta), Zero, One, Zero, Zero)

(* ---------------------- decomposeTransformation ----------------------- *)
_luDecomposition(a, b, c, d, det) ==
    IF a # Zero THEN
        <<fromSkewY(Math_atan(Div(b, a))),
          fromScale(a, Div(det, a)),
          fromSkewX(Math_atan(Div(c, a)))>>
    ELSE IF b # Zero THEN
        <<fromRotate(Math_PI_2),
          fromScale(b, Div(det, b)),
          fromSkewX(Math_atan(Div(d, b)))>>
    ELSE
        <<fromScale(c, d),
          fromSkewX(Math_PI_4),
          fromScale(Zero, One)>>

_qrDecomposition(a, b, c, d, det) ==
    IF a # Zero /\ b # Zero THEN
        LET r == Math_sqrt(Add(Mul(a, a), Mul(b, b)))
            rotate == IF Lt(Zero, b) THEN Math_acos(Div(a, r))
                      ELSE minus(Math_acos(Div(a, r)))
        IN  <<fromRotate(rotate),
              fromScale(r, Div(det, r)),
              fromSkewX(Math_atan(Div(Add(Mul(a, c), Mul(b, d)), Mul(r, r))))>>
    ELSE IF c # Zero \/ d # Zero THEN
        LET s == Math_sqrt(Add(Mul(c, c), Mul(d, d)))
            rotate == IF Lt(Zero, d) THEN Math_acos(Div(Neg(c), s))
                      ELSE minus(Math_acos(Div(c, s)))
        IN  <<fromRotate(quarterTurnMinus(rotate)),
              fromScale(Div(det, s), s),
              fromSkewY(Math_atan(Div(Add(Mul(a, c), Mul(b, d)), Mul(s, s))))>>
    ELSE
        <<identity>>

TypeError == "TypeError"
UNDEFINED == "undefined"

\* m.values: TransformMatrix defines _values, cssVector and matrix, and no
\* property named values
values(m) == UNDEFINED

\* reducer(size, m) of skewSize; reading [i] of undefined throws
reducer(size, m, t) ==
    IF size = TypeError THEN TypeError
    ELSE IF t = "skewX" THEN
        (IF values(m) = UNDEFINED THEN TypeError
         ELSE Add(size, <<Abs(values(m)[3][1]), values(m)[3][2]>>))
    ELSE IF t = "skewY" THEN
        (IF values(m) = UNDEFINED THEN TypeError
         ELSE Add(size, <<Abs(values(m)[2][1]), values(m)[2][2]>>))
    ELSE size

RECURSIVE reduceFrom(_, _, _)
reduceFrom(size, matrixes, k) ==
    IF k > Len(matrixes) THEN size
    ELSE reduceFrom(reducer(size, matrixes[k], _getType(matrixes[k])),
                    matrixes, k + 1)

skewSize(matrixes) == reduceFrom(Zero, matrixes, 1)

\* decomp.filter(m => !(m.isIdentity())); every element's type gets read
RECURSIVE filterIdentity(_)
filterIdentity(ms) ==
    IF ms = <<>> THEN <<>>
    ELSE LET o == Obj(Head(ms), _getType(Head(ms)))
         IN  (IF o.t = "identity" THEN <<>> ELSE <<o>>)
                \o filterIdentity(Tail(ms))

\* the identity test of line 19 left out
decomposeTransformation_noIdentityTest(m) ==
    [threw |-> FALSE, list |-> <<Obj(clone(m.v), NULL)>>]

\* decomposeTransformation(matrix): the list of objects returned, or threw
decomposeTransformation(m) ==
    IF isIdentity(m) THEN [threw |-> FALSE, list |-> <<>>]
    ELSE IF type(m) # "composite"
        THEN [threw |-> FALSE, list |-> <<Obj(clone(m.v), NULL)>>]
    ELSE
        LET a == m.v[1]  b == m.v[2]  c == m.v[3]
            d == m.v[4]  e == m.v[5]  f == m.v[6]
            translation == fromTranslation(e, f)
            linearTxfrm == TransformMatrix(a, b, c, d, Zero, Zero)
        IN  IF e # Zero /\ f # Zero /\ _getType(linearTxfrm) # "composite"
            THEN [threw |-> FALSE,
                  list |-> <<Obj(translation, NULL),
                             Obj(linearTxfrm, _getType(linearTxfrm))>>]
            ELSE
                LET det == Sub(Mul(a, d), Mul(b, c))
                    qr == _qrDecomposition(a, b, c, d, det)
                    lu == _luDecomposition(a, b, c, d, det)
                    qrSkew == skewSize(qr)
                    luSkew == skewSize(lu)
                IN  IF qrSkew = TypeError \/ luSkew = TypeError
                    THEN [threw |-> TRUE, list |-> <<>>]
                    ELSE
                        LET decomp == IF Lt(qrSkew, luSkew) THEN qr ELSE lu
                        IN  [threw |-> FALSE,
                             list |-> filterIdentity(<<translation>> \o decomp)]

\* decompose(): the clone of every non-composite matrix, identity included
decompose(m) ==
    IF type(m) = "composite" THEN decomposeTransformation(m)
    ELSE [threw |-> FALSE, list |-> <<Obj(clone(m.v), NULL)>>]

(* ------------------------------ the heap ------------------------------ *)
Lin == {R(n) : n \in -1..MaxLin}
Tr == {R(n) : n \in 0..MaxTr}
Pt == {R(n) : n \in 0..MaxPt}

\* the object with id i
At(i) == Obj(arrays[objs[i]._values], objs[i]._type)

\* the matrix under study
M == At(1)

NoResult ==
    [op |-> "none", threw |-> FALSE, list |-> <<>>, arr |-> 0,
     mutated |-> FALSE, str |-> "", arg |-> <<>>, out |-> <<>>]

\* The heap after an operation: the matrix under study (its memo as the
\* operation left it) followed by the objects the operation returned.
Heap(m, news) ==
    /\ objs' = [i \in 1..(1 + Len(news)) |->
                    IF i = 1 THEN [_values |-> 1, _type |-> m.t]
                    ELSE [_values |-> i, _type |-> news[i - 1].t]]
    /\ arrays' = [i \in 1..(1 + Len(news)) |->
                    IF i = 1 THEN arrays[objs[1]._values] ELSE news[i - 1].v]

Ids(news) == [i \in 1..Len(news) |-> i + 1]

\* no parser input and no calculator: the matrix is studied on its own
NoCss == [input |-> <<>>, op |-> "none"]
NoCalc ==
    [made |-> "none", calls |-> <<>>, c |-> <<>>, op |-> "none", arg |-> <<>>,
     threw |-> FALSE, err |-> "", out |-> <<>>, n |-> 0]

\* The matrix under study right after its construction, by the constructor
\* or by one of the factories; ctor is what the constructor was called with.
Init ==
    /\ \/ \E a \in Lin, b \in Lin, c \in Lin, d \in Lin, e \in Tr, f \in Tr :
            /\ ctor = <<a, b, c, d, e, f>>
            /\ arrays = <<TransformMatrix(a, b, c, d, e, f)>>
            /\ made = [by |-> "new", args |-> <<a, b, c, d, e, f>>]
       \/ /\ ctor = <<One, Zero, Zero, One, Zero, Zero>>
          /\ arrays = <<identity>>
          /\ made = [by |-> "identity", args |-> <<>>]
       \/ \E tx \in Tr, ty \in Tr :
            /\ ctor = <<One, Zero, Zero, One, tx, ty>>
            /\ arrays = <<fromTranslation(tx, ty)>>
            /\ made = [by |-> "fromTranslation", args |-> <<tx, ty>>]
       \/ \E sx \in Lin, sy \in Lin :
            /\ ctor = <<sx, Zero, Zero, sy, Zero, Zero>>
            /\ arrays = <<fromScale(sx, sy)>>
            /\ made = [by |-> "fromScale", args |-> <<sx, sy>>]
    /\ objs = <<[_values |-> 1, _type |-> NULL]>>
    /\ result = NoResult
    /\ css = NoCss
    /\ calc = NoCalc

(* ----------------------------- operations ----------------------------- *)
\* The caller holds one returned value at a time: an operation on the matrix
\* starts once the value the previous one returned has been dropped.
Idle == result.op = "none"

\* the caller drops what the last operation returned
Drop ==
    /\ ~Idle
    /\ objs' = <<objs[1]>>
    /\ arrays' = <<arrays[1]>>
    /\ result' = NoResult
    /\ UNCHANGED <<ctor, made, css, calc>>

\* M.type
ReadType ==
    /\ Idle
    /\ Heap(typed(M), <<>>)
    /\ result' = [NoResult EXCEPT !.op = "type", !.str = type(M)]
    /\ UNCHANGED <<ctor, made, css, calc>>

\* M.cssVector
GetCssVector ==
    /\ Idle
    /\ LET r == cssVector(<<arrays[1]>>, objs[1])
       IN  /\ arrays' = r.arrays
           /\ objs' = <<objs[1]>>
           /\ result' = [NoResult EXCEPT !.op = "cssVector", !.arr = r.ret]
           /\ UNCHANGED <<ctor, made, css, calc>>

\* M.matrix
GetMatrix ==
    /\ Idle
    /\ arrays' = <<arrays[1], matrix(M.v)>>
    /\ objs' = <<objs[1]>>
    /\ result' = [NoResult EXCEPT !.op = "matrix", !.arr = 2]
    /\ UNCHANGED <<ctor, made, css, calc>>

\* the caller writes into the array cssVector returned
MutateCssVector ==
    /\ result.op = "cssVector"
    /\ ~result.mutated
    /\ \E i \in 1..6 :
        arrays' = [arrays EXCEPT ![result.arr][i] = R(7)]
    /\ result' = [result EXCEPT !.mutated = TRUE]
    /\ UNCHANGED <<objs, ctor, made, css, calc>>

\* the caller writes into a row of the 3x3 array matrix returned
MutateMatrix ==
    /\ result.op = "matrix"
    /\ ~result.mutated
    /\ \E r \in 1..3 :
        arrays' = [arrays EXCEPT ![result.arr][r] = <<R(7), R(7), R(7)>>]
    /\ result' = [result EXCEPT !.mutated = TRUE]
    /\ UNCHANGED <<objs, ctor, made, css, calc>>

\* M.clone()
Clone ==
    /\ Idle
    /\ Heap(M, <<Obj(clone(M.v), NULL)>>)
    /\ result' = [NoResult EXCEPT !.op = "clone", !.list = <<2>>]
    /\ UNCHANGED <<ctor, made, css, calc>>

\* M.inverse; invert reads matrix1.type only when it returns
Inverse ==
    /\ Idle
    /\ LET r == invert(M.v)
       IN  /\ IF r.threw THEN Heap(M, <<>>)
              ELSE Heap(typed(M), <<Obj(r.v, NULL)>>)
           /\ result' = [NoResult EXCEPT !.op = "inverse", !.threw = r.threw,
                           !.list = IF r.threw THEN <<>> ELSE <<2>>,
                           !.out = r.I]
           /\ UNCHANGED <<ctor, made, css, calc>>

\* M.inverse.inverse
InverseOfInverse ==
    /\ result.op = "inverse"
    /\ ~result.threw
    /\ LET r == invert(At(2).v)
       IN  /\ Heap(M, IF r.threw THEN <<>> ELSE <<Obj(r.v, NULL)>>)
           /\ result' = [NoResult EXCEPT !.op = "inverseInverse",
                            !.threw = r.threw,
                            !.list = IF r.threw THEN <<>> ELSE <<2>>,
                            !.out = r.I]
    /\ UNCHANGED <<ctor, made, css, calc>>

\* dotProduct(M, other) and dotProduct(other, M); both .type are read
DotProduct ==
    /\ Idle
    /\ \E other \in {<<R(1), R(2), R(3), R(4), R(5), R(6)>>,
                     <<R(0), R(1), R(-1), R(0), R(0), R(0)>>}, left \in BOOLEAN :
           /\ Heap(typed(M),
                   <<Obj(IF left THEN dotProduct(M.v, other)
                         ELSE dotProduct(other, M.v), NULL)>>)
           /\ result' = [NoResult EXCEPT !.op = "dotProduct", !.list = <<2>>,
                           !.arg = other, !.str = IF left THEN "M*X" ELSE "X*M"]
           /\ UNCHANGED <<ctor, made, css, calc>>

\* TransformMatrix.compose of [identity, M], [M, identity] and [M]
Compose ==
    /\ Idle
    /\ \E shape \in {"IM", "MI", "M"} :
           LET I == Obj(identity, NULL)
               os == IF shape = "IM" THEN <<I, M>>
                     ELSE IF shape = "MI" THEN <<M, I>> ELSE <<M>>
               p == compose(os)
           IN  /\ IF p.fresh THEN Heap(typed(M), <<p.obj>>) ELSE Heap(M, <<>>)
               /\ result' = [NoResult EXCEPT !.op = "compose", !.str = shape,
                               !.list = IF p.fresh THEN <<2>> ELSE <<1>>]
               /\ UNCHANGED <<ctor, made, css, calc>>

\* M.transformPoint(x, y)
TransformPoint ==
    /\ Idle
    /\ \E x \in Pt, y \in Pt :
           /\ Heap(typed(M), <<>>)
           /\ result' = [NoResult EXCEPT !.op = "transformPoint",
                           !.arg = <<x, y>>,
                           !.out = IF isIdentity(M) THEN <<x, y>>
                                   ELSE LET v == <<x, y, One>>
                                            p == matrixVectorProduct(M.v, v)
                                        IN  <<p[1], p[2]>>]
           /\ UNCHANGED <<ctor, made, css, calc>>

\* M.decompose() and decomposeTransformation(M)
Decompose ==
    /\ Idle
    /\ \E method \in BOOLEAN :
           LET r == IF method THEN decompose(M) ELSE decomposeTransformation(M)
           IN  /\ Heap(typed(M), r.list)
               /\ result' = [NoResult EXCEPT
                               !.op = IF method THEN "decompose"
                                      ELSE "decomposeTransformation",
                               !.threw = r.threw, !.list = Ids(r.list)]
               /\ UNCHANGED <<ctor, made, css, calc>>

\* TransformMatrix.compose(list) of the list a decomposition returned
ComposeDecomposition ==
    /\ result.op \in {"decompose", "decomposeTransformation"}
    /\ ~result.threw
    /\ result.list # <<>>
    /\ LET os == [i \in 1..Len(result.list) |-> At(result.list[i])]
           p == compose(os)
       IN  /\ Heap(M, <<p.obj>>)
           /\ result' = [NoResult EXCEPT !.op = "composeDecomposition",
                            !.list = <<2>>, !.str = result.op,
                            !.arg = <<Len(os)>>]
    /\ UNCHANGED <<ctor, made, css, calc>>

Next ==
    \/ ReadType
    \/ GetCssVector
    \/ GetMatrix
    \/ MutateCssVector
    \/ MutateMatrix
    \/ Clone
    \/ Inverse
    \/ InverseOfInverse
    \/ DotProduct
    \/ Compose
    \/ TransformPoint
    \/ Decompose
    \/ ComposeDecomposition
    \/ Drop

Spec == Init /\ [][Next]_vars

(* ============================== parseCss ============================== *)
(* A string is the sequence of its characters.  A regular expression is   *)
(* kept as its syntax tree; matching computes, for a set of positions     *)
(* where a match may start, the set of positions where it may end, so     *)
(* RegExp.test is "some start has some end".                              *)
Digit == {"0", "1", "2", "3", "4", "5", "6", "7", "8", "9"}
LowerCase ==
    {"a", "b", "c", "d", "e", "f", "g", "h", "i", "j", "k", "l", "m",
     "n", "o", "p", "q", "r", "s", "t", "u", "v", "w", "x", "y", "z"}
UpperCase == {"X", "Y", "Z", "S", "T"}
Word == LowerCase \cup UpperCase \cup Digit \cup {"_"}       \* \w
WhiteSpace == {" ", "\t"}                                     \* \s

toLowerChar(c) ==
    CASE c = "X" -> "x" [] c = "Y" -> "y" [] c = "Z" -> "z"
      [] c = "S" -> "s" [] c = "T" -> "t" [] OTHER -> c

\* String.prototype.toLowerCase
toLowerCase(s) == [i \in DOMAIN s |-> toLowerChar(s[i])]

\* the part of s from position i on
From(s, i) == SubSeq(s, i, Len(s))

RECURSIVE trimStart(_)
trimStart(s) ==
    IF s # <<>> /\ Head(s) \in WhiteSpace THEN trimStart(Tail(s)) ELSE s

RECURSIVE trimEnd(_)
trimEnd(s) ==
    IF s # <<>> /\ s[Len(s)] \in WhiteSpace
    THEN trimEnd(SubSeq(s, 1, Len(s) - 1)) ELSE s

\* String.prototype.trim
trim(s) == trimEnd(trimStart(s))

\* regular expression syntax
Chr(C) == [k |-> "chr", c |-> C]
Cat(rs) == [k |-> "cat", rs |-> rs]
Alt(rs) == [k |-> "alt", rs |-> rs]
Opt(r) == [k |-> "opt", r |-> r]
Star(r) == [k |-> "star", r |-> r]
Plus(r) == [k |-> "plus", r |-> r]
Rep(r, n) == Cat([i \in 1..n |-> r])
Lit(w) == Cat([i \in DOMAIN w |-> Chr({w[i]})])
Bol == [k |-> "bol"]
Eol == [k |-> "eol"]

\* the positions where a match of re that starts at a position of P can end
RECURSIVE Ends(_, _, _)
RECURSIVE EndsCat(_, _, _, _)
RECURSIVE EndsStar(_, _, _)
Ends(re, s, P) ==
    CASE re.k = "chr" ->
            {p + 1 : p \in {q \in P : q <= Len(s) /\ s[q] \in re.c}}
      [] re.k = "cat" -> EndsCat(re.rs, 1, s, P)
      [] re.k = "alt" -> UNION {Ends(re.rs[i], s, P) : i \in DOMAIN re.rs}
      [] re.k = "opt" -> P \cup Ends(re.r, s, P)
      [] re.k = "star" -> EndsStar(re.r, s, P)
      [] re.k = "plus" -> EndsStar(re.r, s, Ends(re.r, s, P))
      [] re.k = "bol" -> P \cap {1}
      [] re.k = "eol" -> P \cap {Len(s) + 1}

EndsCat(rs, i, s, P) ==
    IF i > Len(rs) \/ P = {} THEN P ELSE EndsCat(rs, i + 1, s, Ends(rs[i], s, P))

EndsStar(r, s, P) ==
    LET Q == P \cup Ends(r, s, P)
    IN  IF Q = P THEN P ELSE EndsStar(r, s, Q)

\* new RegExp(source, flags): only the i flag changes what test answers
RegExp(re, flags) == [re |-> re, i |-> flags = "i"]

\* RegExp.prototype.test: a match somewhere in the string
test(rx, s) ==
    Ends(rx.re, IF rx.i THEN toLowerCase(s) ELSE s, 1..(Len(s) + 1)) # {}

\* words of the grammar
w_px == <<"p", "x">>
w_deg == <<"d", "e", "g">>
w_rad == <<"r", "a", "d">>
w_grad == <<"g", "r", "a", "d">>
w_turn == <<"t", "u", "r", "n">>
w_matrix == <<"m", "a", "t", "r", "i", "x">>
w_translate == <<"t", "r", "a", "n", "s", "l", "a", "t", "e">>
w_scale == <<"s", "c", "a", "l", "e">>
w_rotate == <<"r", "o", "t", "a", "t", "e">>
w_skew == <<"s", "k", "e", "w">>
w_perspective == <<"p", "e", "r", "s", "p", "e", "c", "t", "i", "v", "e">>
w_3d == <<"3", "d">>
w_transform == <<"t", "r", "a", "n", "s", "f", "o", "r", "m">>

\* '[-+]?((\\d?\\.\\d+)|(\\d+))'
DECIMAL ==
    Cat(<<Opt(Chr({"-", "+"})),
          Alt(<<Cat(<<Opt(Chr(Digit)), Chr({"."}), Plus(Chr(Digit))>>),
                Plus(Chr(Digit))>>)>>)

s_ == Star(Chr(WhiteSpace))     \* \s*
ANGLE_ARG ==
    Cat(<<s_, DECIMAL, Alt(<<Lit(w_deg), Lit(w_rad), Lit(w_grad), Lit(w_turn)>>),
          s_>>)
LENGTH_ARG == Cat(<<s_, DECIMAL, Lit(w_px), s_>>)
UNITLESS_ARG == Cat(<<s_, DECIMAL, s_>>)

\* name\(arg(,arg)*\) for the given name and arguments
Call(name, args) ==
    Cat(<<Lit(name), Chr({"("}), args[1]>>
        \o [i \in 1..(Len(args) - 1) |-> Cat(<<Chr({","}), args[i + 1]>>)]
        \o <<Chr({")"})>>)

THREED_FUNCTIONS ==
    Alt(<<Lit(w_matrix \o w_3d), Lit(w_perspective), Lit(w_rotate \o w_3d),
          Lit(w_rotate \o <<"x">>), Lit(w_rotate \o <<"y">>),
          Lit(w_rotate \o <<"z">>), Lit(w_scale \o w_3d),
          Lit(w_scale \o <<"z">>), Lit(w_translate \o w_3d),
          Lit(w_translate \o <<"z">>)>>)

UNIT_RX ==
    [UNITLESS |-> RegExp(Cat(<<Bol, DECIMAL, Eol>>), ""),
     PX |-> RegExp(Cat(<<DECIMAL, Lit(w_px)>>), ""),
     DEG |-> RegExp(Cat(<<DECIMAL, Lit(w_deg)>>), ""),
     RAD |-> RegExp(Cat(<<DECIMAL, Lit(w_rad)>>), ""),
     GRAD |-> RegExp(Cat(<<DECIMAL, Lit(w_grad)>>), ""),
     TURN |-> RegExp(Cat(<<DECIMAL, Lit(w_turn)>>), "")]

FUNCTION_RX ==
    [IS_THREED |-> RegExp(Cat(<<THREED_FUNCTIONS, Chr({"("})>>), "i"),
     MATRIX |->
        RegExp(Cat(<<Lit(w_matrix), Chr({"("}),
                     Rep(Cat(<<UNITLESS_ARG, Chr({","})>>), 5),
                     UNITLESS_ARG, Chr({")"})>>), "i"),
     TRANSLATE_X |->
        RegExp(Alt(<<Call(w_translate \o <<"x">>, <<LENGTH_ARG>>),
                     Call(w_translate, <<LENGTH_ARG>>)>>), "i"),
     TRANSLATE_Y |-> RegExp(Call(w_translate \o <<"y">>, <<LENGTH_ARG>>), "i"),
     TRANSLATE |-> RegExp(Call(w_translate, <<LENGTH_ARG, LENGTH_ARG>>), "i"),
     SCALE_X |-> RegExp(Call(w_scale \o <<"x">>, <<UNITLESS_ARG>>), "i"),
     SCALE_Y |-> RegExp(Call(w_scale \o <<"y">>, <<UNITLESS_ARG>>), "i"),
     SCALE_UNIFORM |-> RegExp(Call(w_scale, <<UNITLESS_ARG>>), "i"),
     SCALE_NONUNIFORM |->
        RegExp(Call(w_scale, <<UNITLESS_ARG, UNITLESS_ARG>>), "i"),
     ROTATE |-> RegExp(Call(w_rotate, <<ANGLE_ARG>>), "i"),
     SKEW_X |->
        RegExp(Alt(<<Call(w_skew \o <<"x">>, <<ANGLE_ARG>>),
                     Call(w_skew, <<ANGLE_ARG>>)>>), "i"),
     SKEW_Y |-> RegExp(Call(w_skew \o <<"y">>, <<ANGLE_ARG>>), "i"),
     SKEW_BOTH |-> RegExp(Call(w_skew, <<ANGLE_ARG, ANGLE_ARG>>), "i")]

(* --------------------------- string methods --------------------------- *)
Max(S) == CHOOSE x \in S : \A y \in S : y <= x
Min(S) == CHOOSE x \in S : \A y \in S : x <= y

\* String.prototype.replace(re, ''): the leftmost match, taken greedily
remove(re, s) ==
    LET starts == {p \in 1..(Len(s) + 1) : Ends(re, s, {p}) # {}}
    IN  IF starts = {} THEN s
        ELSE LET p == Min(starts)
                 q == Max(Ends(re, s, {p}))
             IN  SubSeq(s, 1, p - 1) \o From(s, q)

\* String.prototype.replace(/\s+/g, ' ')
RECURSIVE collapse(_)
collapse(s) ==
    IF s = <<>> THEN <<>>
    ELSE IF Head(s) \in WhiteSpace
        THEN <<" ">> \o collapse(trimStart(s))
        ELSE <<Head(s)>> \o collapse(Tail(s))

\* String.prototype.split(/,/g)
RECURSIVE split(_)
split(s) ==
    IF \A i \in DOMAIN s : s[i] # "," THEN <<s>>
    ELSE LET p == Min({i \in DOMAIN s : s[i] = ","})
         IN  <<SubSeq(s, 1, p - 1)>> \o split(From(s, p + 1))

\* NaN, kept apart from every number <<n, d>> with d > 0
NaN == <<0, 0>>
isNaN(x) == x = NaN

digitValue(c) ==
    CASE c = "0" -> 0 [] c = "1" -> 1 [] c = "2" -> 2 [] c = "3" -> 3
      [] c = "4" -> 4 [] c = "5" -> 5 [] c = "6" -> 6 [] c = "7" -> 7
      [] c = "8" -> 8 [] c = "9" -> 9

\* the digits that s starts with
RECURSIVE digits(_)
digits(s) ==
    IF s # <<>> /\ Head(s) \in Digit THEN <<Head(s)>> \o digits(Tail(s))
    ELSE <<>>

RECURSIVE decimalValue(_, _)
decimalValue(ds, acc) ==
    IF ds = <<>> THEN acc ELSE decimalValue(Tail(ds), 10 * acc + digitValue(Head(ds)))

RECURSIVE pow10(_)
pow10(k) == IF k = 0 THEN 1 ELSE 10 * pow10(k - 1)

\* parseFloat: the longest numeric prefix after leading white space, NaN
\* when there is none (no input of the model writes an exponent)
parseFloat(str) ==
    LET s == trimStart(str)
        signed == s # <<>> /\ Head(s) \in {"-", "+"}
        sign == IF signed /\ Head(s) = "-" THEN -1 ELSE 1
        u == IF signed THEN Tail(s) ELSE s
        int == digits(u)
        v == From(u, Len(int) + 1)
        frac == IF v # <<>> /\ Head(v) = "." THEN digits(Tail(v)) ELSE <<>>
    IN  IF int = <<>> /\ frac = <<>> THEN NaN
        ELSE Norm(sign * decimalValue(int \o frac, 0), pow10(Len(frac)))

(* ------------------------------- angles ------------------------------- *)
\* An angle in radians is pi * turns.pi + turns.one with both coefficients
\* exact; cos and sin are exact at the multiples of pi / 4 and a Taylor
\* polynomial in fixed point of resolution 1 / TrigPrec elsewhere.
TrigPrec == 1000

fixPI == (355 * TrigPrec) \div 113

RECURSIVE taylor(_, _, _, _)
taylor(term, z, k, last) ==
    IF k > last THEN 0
    ELSE LET t1 == ((0 - term) * z) \div TrigPrec
             t2 == (t1 * z) \div TrigPrec
         IN  term + taylor(t2 \div ((k + 1) * (k + 2)), z, k + 2, last)

fixSin(z) == taylor(z, z, 1, 9)
fixCos(z) == taylor(TrigPrec, z, 0, 8)

direction(p, r) ==
    LET h == Math_sqrt(<<1, 2>>)
        k == ((4 * p[1]) \div p[2]) % 8
        turn == Norm(p[1] % (2 * p[2]), p[2])
        x == ((turn[1] * 355 * TrigPrec) \div (turn[2] * 113)
                + (r[1] * TrigPrec) \div r[2]) % (2 * fixPI)
        z == IF 2 * x <= fixPI THEN x
             ELSE IF 2 * x <= 3 * fixPI THEN fixPI - x ELSE x - 2 * fixPI
        flip == 2 * x > fixPI /\ 2 * x <= 3 * fixPI
    IN  IF r = Zero /\ (4 * p[1]) % p[2] = 0
        THEN [cos |-> CASE k = 0 -> One [] k \in {1, 7} -> h
                        [] k \in {2, 6} -> Zero [] k \in {3, 5} -> Neg(h)
                        [] k = 4 -> R(-1),
              sin |-> CASE k \in {0, 4} -> Zero [] k \in {1, 3} -> h
                        [] k = 2 -> One [] k \in {5, 7} -> Neg(h)
                        [] k = 6 -> R(-1)]
        ELSE [cos |-> Norm(IF flip THEN 0 - fixCos(z) ELSE fixCos(z), TrigPrec),
              sin |-> Norm(fixSin(z), TrigPrec)]

\* the number of radians pi * p + r, with the direction Math.cos, Math.sin
\* and Math.tan read
radians(p, r) ==
    [pi |-> p, one |-> r, cos |-> direction(p, r).cos,
     sin |-> direction(p, r).sin]

(* ------------------------------ tokenizer ----------------------------- *)
\* one turn of the for loop of _parseFunctions on the character thisChar
scanChar(st, thisChar) ==
    IF st.betweenFuncs THEN
        (IF thisChar \in Word
         THEN [st EXCEPT !.thisFunc = <<thisChar>>, !.betweenFuncs = FALSE,
                         !.inFuncName = TRUE]
         ELSE IF thisChar # " " THEN [st EXCEPT !.threw = TRUE] ELSE st)
    ELSE IF st.inFuncName THEN
        (IF thisChar \in Word
         THEN [st EXCEPT !.thisFunc = Append(@, thisChar)]
         ELSE IF thisChar = "("
         THEN [st EXCEPT !.thisFunc = Append(@, thisChar),
                         !.inFuncName = FALSE, !.inFuncBody = TRUE]
         ELSE [st EXCEPT !.threw = TRUE])
    ELSE IF st.inFuncBody THEN
        (IF thisChar = ")"
         THEN [st EXCEPT !.thisFunc = Append(@, thisChar),
                         !.funcs = Append(@, Append(st.thisFunc, thisChar)),
                         !.inFuncBody = FALSE, !.atEndFunc = TRUE]
         ELSE [st EXCEPT !.thisFunc = Append(@, thisChar)])
    ELSE IF st.atEndFunc THEN
        (IF thisChar = " "
         THEN [st EXCEPT !.betweenFuncs = TRUE, !.atEndFunc = FALSE]
         ELSE [st EXCEPT !.threw = TRUE])
    ELSE st

RECURSIVE scanFrom(_, _, _)
scanFrom(st, str, i) ==
    IF st.threw \/ i > Len(str) THEN st
    ELSE scanFrom(scanChar(st, str[i]), str, i + 1)

\* _parseFunctions without the test that follows the loop
_parseFunctions_noEndCheck(str) ==
    LET st == scanFrom([atEndFunc |-> FALSE, betweenFuncs |-> TRUE,
                        inFuncName |-> FALSE, inFuncBody |-> FALSE,
                        funcs |-> <<>>, thisFunc |-> <<>>, threw |-> FALSE],
                       str, 1)
    IN  IF st.threw
        THEN [threw |-> TRUE, err |-> "Invalid CSS transform string",
              funcs |-> <<>>]
        ELSE [threw |-> FALSE, err |-> "", funcs |-> st.funcs]

\* _parseFunctions(str): the function tokens, or threw
_parseFunctions(str) ==
    LET st == scanFrom([atEndFunc |-> FALSE, betweenFuncs |-> TRUE,
                        inFuncName |-> FALSE, inFuncBody |-> FALSE,
                        funcs |-> <<>>, thisFunc |-> <<>>, threw |-> FALSE],
                       str, 1)
    IN  IF st.threw \/ (~st.betweenFuncs /\ ~st.atEndFunc)
        THEN [threw |-> TRUE, err |-> "Invalid CSS transform string",
              funcs |-> <<>>]
        ELSE [threw |-> FALSE, err |-> "", funcs |-> st.funcs]

(* ------------------------------ arguments ----------------------------- *)
Value(v) == [threw |-> FALSE, err |-> "", val |-> v]
Throw(msg) == [threw |-> TRUE, err |-> msg, val |-> NaN]

_getUnitless(str) ==
    LET got(x) ==
            IF test(UNIT_RX.UNITLESS, str) /\ ~isNaN(x) THEN Value(x)
            ELSE Throw("Invalid argument")
    IN  got(parseFloat(str))

_getPx(str) ==
    LET got(x) ==
            IF ~test(UNIT_RX.PX, str)
            THEN Throw("Length units must be provided in px")
            ELSE IF isNaN(x) THEN Throw("Invalid unit length")
            ELSE Value(x)
    IN  got(parseFloat(str))

\* _getAngle with unit tests that look for the suffix alone
_getAngle_suffixOnly(str) ==
    LET has(w) == test(RegExp(Lit(w), ""), str)
        got(x) ==
            IF ~\E w \in {w_deg, w_turn, w_rad, w_grad} : has(w)
            THEN Throw("Angle units are not correctly specified")
            ELSE IF isNaN(x) THEN Throw("Invalid angle")
            ELSE IF has(w_deg) THEN Value(radians(Div(x, R(180)), Zero))
            ELSE IF has(w_turn) THEN Value(radians(Mul(x, R(2)), Zero))
            ELSE IF has(w_rad) THEN Value(radians(Zero, x))
            ELSE Value(radians(Div(x, R(200)), Zero))
    IN  got(parseFloat(str))

_getAngle(str) ==
    LET got(rx, x) ==
            IF ~\E u \in {"DEG", "TURN", "RAD", "GRAD"} : test(rx[u], str)
            THEN Throw("Angle units are not correctly specified")
            ELSE IF isNaN(x) THEN Throw("Invalid angle")
            ELSE IF test(rx.DEG, str) THEN Value(radians(Div(x, R(180)), Zero))
            ELSE IF test(rx.TURN, str) THEN Value(radians(Mul(x, R(2)), Zero))
            ELSE IF test(rx.RAD, str) THEN Value(radians(Zero, x))
            ELSE Value(radians(Div(x, R(200)), Zero))
    IN  got(UNIT_RX, parseFloat(str))

\* arr.map(getter): the values, or the first throw
RECURSIVE mapFrom(_, _, _, _)
mapFrom(arr, unit, i, vals) ==
    IF i > Len(arr) THEN [threw |-> FALSE, err |-> "", vals |-> vals]
    ELSE LET mapped(x) ==
                 IF x.threw THEN [threw |-> TRUE, err |-> x.err, vals |-> <<>>]
                 ELSE mapFrom(arr, unit, i + 1, Append(vals, x.val))
         IN  mapped(IF unit = "length" THEN _getPx(arr[i])
                    ELSE IF unit = "angle" THEN _getAngle(arr[i])
                    ELSE _getUnitless(arr[i]))

\* _parseArgs(str, type)
_parseArgs(str, unit) ==
    LET body == remove(Cat(<<Chr({")"}), Eol>>),
                       remove(Cat(<<Bol, Plus(Chr(Word)), Chr({"("})>>),
                              trim(str)))
        parts == split(body)
        arr == [i \in DOMAIN parts |-> trim(parts[i])]
    IN  mapFrom(arr, unit, 1, <<>>)

(* ------------------------------- parsers ------------------------------ *)
\* what a parser gives: a matrix, nothing (undefined), or a throw
Matrix(v) == [threw |-> FALSE, err |-> "", some |-> TRUE, M |-> v]
Nothing == [threw |-> FALSE, err |-> "", some |-> FALSE, M |-> <<>>]
Thrown(msg) == [threw |-> TRUE, err |-> msg, some |-> FALSE, M |-> <<>>]

\* TransformMatrix defines no static fromSkewBoth
fromSkewBoth == UNDEFINED

_matrix(str) ==
    LET built(args) ==
            IF args.threw THEN Thrown(args.err)
            ELSE Matrix(TransformMatrix(args.vals[1], args.vals[2],
                                        args.vals[3], args.vals[4],
                                        args.vals[5], args.vals[6]))
    IN  IF test(FUNCTION_RX.MATRIX, str)
        THEN built(_parseArgs(str, "unitless"))
        ELSE Nothing

_translate(str) ==
    LET built(rx, args) ==
            IF test(rx.TRANSLATE_X, str) THEN
                (IF args.threw THEN Thrown(args.err)
                 ELSE Matrix(fromTranslation(args.vals[1], Zero)))
            ELSE IF test(rx.TRANSLATE_Y, str) THEN
                (IF args.threw THEN Thrown(args.err)
                 ELSE Matrix(fromTranslation(Zero, args.vals[1])))
            ELSE IF test(rx.TRANSLATE, str) THEN
                (IF args.threw THEN Thrown(args.err)
                 ELSE Matrix(fromTranslation(args.vals[1], args.vals[2])))
            ELSE Nothing
    IN  built(FUNCTION_RX, _parseArgs(str, "length"))

_scale(str) ==
    LET built(rx, args) ==
            IF ~\E k \in {"SCALE_UNIFORM", "SCALE_NONUNIFORM", "SCALE_X",
                          "SCALE_Y"} : test(rx[k], str)
            THEN Nothing
            ELSE IF args.threw THEN Thrown(args.err)
            ELSE IF test(rx.SCALE_UNIFORM, str)
                THEN Matrix(fromScale(args.vals[1], args.vals[1]))
            ELSE IF test(rx.SCALE_NONUNIFORM, str)
                THEN Matrix(fromScale(args.vals[1], args.vals[2]))
            ELSE IF test(rx.SCALE_X, str)
                THEN Matrix(fromScale(args.vals[1], One))
            ELSE Matrix(fromScale(One, args.vals[1]))
    IN  built(FUNCTION_RX, _parseArgs(str, "unitless"))

_rotate(str) ==
    LET built(args) ==
            IF args.threw THEN Thrown(args.err)
            ELSE Matrix(fromRotate(args.vals[1]))
    IN  IF test(FUNCTION_RX.ROTATE, str)
        THEN built(_parseArgs(str, "angle"))
        ELSE Nothing

_skew(str) ==
    LET built(rx, args) ==
            IF test(rx.SKEW_X, str) THEN
                (IF args.threw THEN Thrown(args.err)
                 ELSE Matrix(fromSkewX(args.vals[1])))
            ELSE IF test(rx.SKEW_Y, str) THEN
                (IF args.threw THEN Thrown(args.err)
                 ELSE Matrix(fromSkewY(args.vals[1])))
            ELSE IF test(rx.SKEW_BOTH, str) THEN
                (IF args.threw THEN Thrown(args.err)
                 ELSE IF fromSkewBoth = UNDEFINED THEN Thrown(TypeError)
                 ELSE Matrix(fromSkewBoth))
            ELSE Nothing
    IN  built(FUNCTION_RX, _parseArgs(str, "angle"))

\* parsers[i](funcStr)
parser(i, funcStr) ==
    CASE i = 1 -> _translate(funcStr)
      [] i = 2 -> _scale(funcStr)
      [] i = 3 -> _rotate(funcStr)
      [] i = 4 -> _skew(funcStr)
      [] i = 5 -> _matrix(funcStr)

\* the for loop over the parsers: the first matrix, a throw, or nothing
RECURSIVE tryParsers(_, _)
tryParsers(funcStr, i) ==
    IF i > 5 THEN Nothing
    ELSE LET tried(m) ==
                 IF m.threw \/ m.some THEN m ELSE tryParsers(funcStr, i + 1)
         IN  tried(parser(i, funcStr))

\* the callback of functions.forEach on one function token
eachFunction(acc, funcStr, safe3D) ==
    LET pushed(m) ==
            IF m.threw THEN [acc EXCEPT !.threw = TRUE, !.err = m.err]
            ELSE IF m.some THEN [acc EXCEPT !.matrixes = Append(@, m.M)]
            ELSE IF test(FUNCTION_RX.IS_THREED, funcStr) THEN
                (IF safe3D
                 THEN [acc EXCEPT !.threw = TRUE,
                                  !.err = "Cannot parse 3D transforms"]
                 ELSE [acc EXCEPT !.warned = @ + 1])
            ELSE [acc EXCEPT !.threw = TRUE,
                             !.err = "Invalid CSS transform function"]
    IN  IF acc.threw THEN acc ELSE pushed(tryParsers(funcStr, 1))

RECURSIVE forEach(_, _, _, _)
forEach(acc, functions, i, safe3D) ==
    IF i > Len(functions) THEN acc
    ELSE forEach(eachFunction(acc, functions[i], safe3D), functions, i + 1,
                 safe3D)

\* func.toLowerCase().trim() and the three replace calls
clean(func) ==
    collapse(remove(Cat(<<Chr({";"}), Eol>>),
                    remove(Cat(<<Bol, Lit(w_transform), Chr({":"}), s_>>),
                           trim(toLowerCase(func)))))

\* parseCss(func, safe3D): the matrixes and the warnings, or threw
parseCss(func, safe3D) ==
    LET returned(r) == IF r.threw THEN [r EXCEPT !.matrixes = <<>>] ELSE r
        parsed(functions) ==
            IF functions.threw
            THEN [threw |-> TRUE, err |-> functions.err, matrixes |-> <<>>,
                  warned |-> 0]
            ELSE returned(forEach([threw |-> FALSE, err |-> "",
                                   matrixes |-> <<>>, warned |-> 0],
                                  functions.funcs, 1, safe3D))
    IN  parsed(_parseFunctions(clean(func)))

(* --------------------------- parser inputs ---------------------------- *)
MaxCalls == 2     \* a transform string holds at most MaxCalls function calls

\* a literal as written, with the number it denotes
Num(s, n, d) == [s |-> s, v |-> <<n, d>>]
Numbers ==
    {Num(<<"0">>, 0, 1), Num(<<"2">>, 2, 1), Num(<<"-", "1">>, -1, 1),
     Num(<<".", "5">>, 1, 2), Num(<<"1", ".", "5">>, 3, 2),
     Num(<<"1", "0", ".", "5">>, 21, 2), Num(<<"+", "4", "5">>, 45, 1),
     Num(<<"1", "8", "0">>, 180, 1), Num(<<"2", "0", "0">>, 200, 1)}
NotNumbers ==
    {<<>>, <<"1", ".", "5", ".", "6">>, <<"+", "-", "3">>, <<"a">>, <<"1", ".">>}
Units ==
    {<<>>, w_px, w_deg, w_rad, w_grad, w_turn, <<"e", "m">>, <<"%">>}

\* an argument: a number with a unit, between characters that do not belong
Arg(pre, num, unit, post) ==
    [s |-> pre \o num.s \o unit \o post, v |-> num.v, unit |-> unit,
     pre |-> pre, post |-> post]
BadNum(s) == [s |-> s, v |-> NaN]

\* (a digit right after a number would be part of the number)
ArgInputs ==
    {Arg(pre, num, unit, post) :
        pre \in {<<>>, <<" ">>, <<"x">>},
        num \in Numbers \cup {BadNum(s) : s \in NotNumbers},
        unit \in Units,
        post \in {<<>>, <<" ">>, <<"x">>, <<"5">>}}
    \ {Arg(pre, num, <<>>, <<"5">>) :
        pre \in {<<>>, <<" ">>, <<"x">>},
        num \in Numbers \cup {BadNum(s) : s \in NotNumbers}}

\* the arguments the function calls are written with
CallArgs ==
    {Arg(<<>>, num, unit, <<>>) :
        num \in {n \in Numbers : n.v \in {R(2), R(-1), <<1, 2>>, <<21, 2>>}},
        unit \in {<<>>, w_px}}
    \cup {Arg(<<>>, Num(<<"4", "5">>, 45, 1), w_deg, <<>>),
          Arg(<<>>, Num(<<"2", "0", "0">>, 200, 1), w_grad, <<>>),
          Arg(<<>>, Num(<<".", "5">>, 1, 2), w_turn, <<>>),
          Arg(<<>>, Num(<<"0">>, 0, 1), w_rad, <<>>),
          Arg(<<>>, Num(<<"1", "0", ".", "5">>, 21, 2), w_deg, <<>>),
          Arg(<<>>, Num(<<"2">>, 2, 1), <<"e", "m">>, <<>>)}

Names2D ==
    {w_matrix, w_translate, w_translate \o <<"X">>, w_translate \o <<"Y">>,
     w_scale, w_scale \o <<"X">>, w_scale \o <<"Y">>, w_rotate, w_skew,
     w_skew \o <<"X">>, w_skew \o <<"Y">>}
Names3D ==
    {w_matrix \o w_3d, w_perspective, w_rotate \o w_3d, w_rotate \o <<"X">>,
     w_rotate \o <<"Y">>, w_rotate \o <<"Z">>, w_scale \o w_3d,
     w_scale \o <<"Z">>, w_translate \o w_3d, w_translate \o <<"Z">>}
NamesOther ==
    {<<"f", "o", "o">>, <<"x">> \o w_scale, <<"x">> \o w_rotate \o <<"x">>,
     w_scale \o <<"s">>}

RECURSIVE join(_, _)
join(strs, sep) ==
    IF strs = <<>> THEN <<>>
    ELSE IF Len(strs) = 1 THEN strs[1]
    ELSE strs[1] \o sep \o join(Tail(strs), sep)

\* the call name(args) as written, the arguments sep apart
FunctionCall(name, args, sep) ==
    [name |-> name, args |-> args,
     s |-> name \o <<"(">> \o join([i \in DOMAIN args |-> args[i].s], sep)
            \o <<")">>]

SixArgs ==
    {<<a, Arg(<<>>, Num(<<"2">>, 2, 1), <<>>, <<>>),
       Arg(<<>>, Num(<<"-", "1">>, -1, 1), <<>>, <<>>), d,
       Arg(<<>>, Num(<<".", "5">>, 1, 2), <<>>, <<>>), f>> :
        a \in {x \in CallArgs : x.unit = <<>>},
        d \in {Arg(<<>>, Num(<<"4">>, 4, 1), <<>>, <<>>),
               Arg(<<>>, BadNum(<<"+", "-", "4">>), <<>>, <<>>)},
        f \in {x \in CallArgs : x.unit \in {<<>>, w_px}}}

\* one argument, or two with the second of a few
ShortArgLists ==
    {<<a>> : a \in CallArgs}
    \cup {<<a, b>> : a \in CallArgs,
                     b \in {x \in CallArgs : x.v \in {R(2), R(45)}}}

\* six arguments, one fewer and one more
LongArgLists ==
    SixArgs
    \cup {SubSeq(six, 1, 5) : six \in SixArgs}
    \cup {six \o <<six[1]>> : six \in SixArgs}

\* every function call the single-call strings are made of
Calls ==
    {FunctionCall(name, args, <<",", " ">>) :
        name \in Names2D \cup Names3D \cup NamesOther, args \in ShortArgLists}
    \cup {FunctionCall(name, args, sep) :
            name \in {w_matrix, w_matrix \o w_3d}, args \in LongArgLists,
            sep \in {<<",">>, <<" ", ",", " ">>}}

\* the calls the longer strings are made of
One2(name, num, unit) ==
    FunctionCall(name, <<Arg(<<>>, num, unit, <<>>)>>, <<",">>)
SomeCalls ==
    {One2(w_translate, Num(<<"3">>, 3, 1), w_px),
     One2(w_scale, Num(<<"2">>, 2, 1), <<>>),
     One2(w_rotate, Num(<<"9", "0">>, 90, 1), w_deg),
     One2(w_skew \o <<"Y">>, Num(<<"5", "0">>, 50, 1), w_grad),
     One2(w_scale \o <<"X">>, Num(<<"1", "0", ".", "5">>, 21, 2), <<>>),
     One2(w_perspective, Num(<<"3">>, 3, 1), w_px),
     One2(w_rotate \o <<"Z">>, Num(<<"4">>, 4, 1), w_deg),
     One2(<<"f", "o", "o">>, Num(<<"1">>, 1, 1), <<>>),
     FunctionCall(w_skew,
        <<Arg(<<>>, Num(<<"4", "5">>, 45, 1), w_deg, <<>>),
          Arg(<<>>, Num(<<"0">>, 0, 1), w_rad, <<>>)>>, <<",", " ">>),
     FunctionCall(w_matrix,
        [i \in 1..6 |-> Arg(<<>>, Num(<<"1">>, 1, 1), <<>>, <<>>)], <<",", " ">>)}

\* the transform string of a list of calls, bare or as a CSS declaration
Written(calls, declaration) ==
    LET str == join([i \in DOMAIN calls |-> calls[i].s], <<" ">>)
    IN  IF declaration
        THEN <<"T">> \o Tail(w_transform) \o <<":", " ", "\t">> \o str \o <<";">>
        ELSE str

\* the pieces the tokenizer's strings are made of
Pieces ==
    {<<>>, <<"a">>, <<"a", "(">>, <<"a", "(", ")">>, <<"a", "_", "1", "(", "b", " ", "(", ",", ")">>,
     <<"(", ")">>, <<")">>, <<"a", "(", ")", ")">>}
Gaps == {<<>>, <<" ">>, <<" ", " ">>, <<";">>, <<"\t">>, <<",">>}

(* --------------------- TransformMatrix.fromElement -------------------- *)
w_none == <<"n", "o", "n", "e">>

\* String.prototype.indexOf(word): counted from 0, -1 when word is absent
indexOf(s, word) ==
    LET found == {i \in 1..(Len(s) - Len(word) + 1) :
                    SubSeq(s, i, i + Len(word) - 1) = word}
    IN  IF found = {} THEN -1 ELSE Min(found) - 1

\* String.prototype.split(/[^.0-9]+/): the runs of digits and dots between
\* runs of other characters, the empty string where the string starts or
\* ends with another character
RECURSIVE splitNumeric(_)
splitNumeric(s) ==
    LET others == {i \in DOMAIN s : s[i] \notin Digit \cup {"."}}
    IN  IF others = {} THEN <<s>>
        ELSE LET p == Min(others)
                 next == {i \in p..Len(s) : s[i] \in Digit \cup {"."}}
             IN  <<SubSeq(s, 1, p - 1)>>
                    \o splitNumeric(IF next = {} THEN <<>>
                                    ELSE From(s, Min(next)))

\* Array.prototype.slice(first, last), indexes counted from 0
slice(arr, first, last) ==
    SubSeq(arr, first + 1, IF last < Len(arr) THEN last ELSE Len(arr))

\* TransformMatrix.fromElement(el), el given by getComputedStyle(el).transform:
\* null, a new matrix, or the error thrown. (An index past the end of css
\* reads undefined, which computes as NaN; six numbers give six elements.)
TransformMatrix_fromElement(transform) ==
    LET returned(str) ==
            IF str = w_none
            THEN [threw |-> FALSE, null |-> TRUE, v |-> <<>>]
            ELSE IF indexOf(str, w_matrix \o w_3d) > -1
            THEN [threw |-> TRUE, null |-> FALSE, v |-> <<>>]
            ELSE IF indexOf(str, w_matrix \o <<"(">>) # 0
            THEN [threw |-> FALSE, null |-> TRUE, v |-> <<>>]
            ELSE LET built(strs) ==
                        [threw |-> FALSE, null |-> FALSE,
                         v |-> [k \in 1..6 |->
                                    IF k <= Len(strs) THEN parseFloat(strs[k])
                                    ELSE NaN]]
                 IN  built(slice(splitNumeric(str), 1, 7))
    IN  returned(toLowerCase(trim(transform)))

\* the numbers a computed style is written with
Plain(num) == Arg(<<>>, num, <<>>, <<>>)
StyleNumbers ==
    {Plain(n) : n \in {Num(<<"1">>, 1, 1), Num(<<"0">>, 0, 1),
                       Num(<<"-", "1">>, -1, 1), Num(<<"0", ".", "5">>, 1, 2),
                       Num(<<"-", "2", ".", "5">>, -5, 2)}}

\* the computed style of an element with a 2D transform, one with the
\* transform of the README among them
ComputedMatrixes ==
    {FunctionCall(w_matrix, <<a, b, c, d, e, f>>, <<",", " ">>) :
        a \in StyleNumbers, b \in StyleNumbers, c \in StyleNumbers,
        d \in {Plain(Num(<<"1">>, 1, 1))},
        e \in {Plain(Num(<<"0">>, 0, 1)), Plain(Num(<<"-", "1">>, -1, 1))},
        f \in {Plain(Num(<<"0">>, 0, 1)), Plain(Num(<<"2", "0">>, 20, 1))}}
    \cup {FunctionCall(w_matrix,
            <<Plain(Num(<<"1", ".", "1", "2", "7", "6", "3">>, 112763, 100000)),
              Plain(Num(<<"0", ".", "4", "1", "0", "4", "2", "4">>, 51303, 125000)),
              Plain(Num(<<"-", "0", ".", "4", "1", "0", "4", "2", "4">>, -51303, 125000)),
              Plain(Num(<<"1", ".", "1", "2", "7", "6", "3">>, 112763, 100000)),
              Plain(Num(<<"2", ".", "0", "3", "1", "4", "1">>, 203141, 100000)),
              Plain(Num(<<"6", "4", ".", "5", "9">>, 6459, 100))>>,
            <<",", " ">>)}

\* the computed style of an element with a 3D transform
ComputedMatrix3d ==
    FunctionCall(w_matrix \o w_3d,
                 [i \in 1..16 |->
                    IF i \in {1, 6, 11, 16} THEN Plain(Num(<<"1">>, 1, 1))
                    ELSE Plain(Num(<<"0">>, 0, 1))],
                 <<",", " ">>)

(* ------------------------ the parser, called once --------------------- *)
\* the call about to be made: the function, its input, and how the input
\* was written (calls, args, pieces)
Pending(fn, input) ==
    [fn |-> fn, input |-> input, calls |-> <<>>, args |-> <<>>,
     pieces |-> <<>>, unit |-> "", safe3D |-> FALSE, done |-> FALSE,
     out |-> <<>>]

RECURSIVE CallLists(_)
CallLists(n) ==
    IF n = 0 THEN {<<>>}
    ELSE CallLists(n - 1)
         \cup {Append(cs, c) : cs \in {x \in CallLists(n - 1) : Len(x) = n - 1},
                              c \in SomeCalls}

ParserInit ==
    /\ arrays = <<identity>>
    /\ objs = <<[_values |-> 1, _type |-> NULL]>>
    /\ ctor = identity
    /\ made = [by |-> "identity", args |-> <<>>]
    /\ result = NoResult
    /\ calc = NoCalc
    /\ \/ \E c \in Calls :
            css = [Pending("parseCss", c.s) EXCEPT !.calls = <<c>>]
       \/ \E cs \in CallLists(MaxCalls), declaration \in BOOLEAN :
            /\ Len(cs) >= 2 \/ declaration
            /\ css = [Pending("parseCss", Written(cs, declaration))
                        EXCEPT !.calls = cs]
       \/ \E lead \in {<<>>, <<" ">>}, p1 \in Pieces, gap \in Gaps,
             p2 \in Pieces, trail \in {<<>>, <<" ">>, <<";">>} :
            css = [Pending("_parseFunctions", lead \o p1 \o gap \o p2 \o trail)
                     EXCEPT !.pieces = <<lead, p1, gap, p2, trail>>]
       \/ \E cs \in CallLists(MaxCalls) :
            css = [Pending("_parseFunctions", Written(cs, FALSE))
                     EXCEPT !.calls = cs]
       \/ \E a \in ArgInputs, unit \in {"unitless", "length", "angle"} :
            css = [Pending("_parseArgs", <<"f", "o", "o", "(">> \o a.s \o <<")">>)
                     EXCEPT !.args = <<a>>, !.unit = unit]
       \/ \E a \in CallArgs, b \in CallArgs,
             unit \in {"unitless", "length", "angle"} :
            css = [Pending("_parseArgs",
                           <<"f", "o", "o", "(">> \o a.s \o <<",", " ">> \o b.s
                                \o <<")">>)
                     EXCEPT !.args = <<a, b>>, !.unit = unit]
       \/ \E c \in ComputedMatrixes \cup {ComputedMatrix3d} :
            css = [Pending("fromElement", c.s) EXCEPT !.calls = <<c>>]
       \/ \E transform \in {w_none, <<>>} :
            css = Pending("fromElement", transform)

\* parseCss(input, safe3D)
CallParseCss ==
    /\ css.fn = "parseCss"
    /\ ~css.done
    /\ \E safe3D \in BOOLEAN :
        css' = [css EXCEPT !.done = TRUE, !.safe3D = safe3D,
                           !.out = parseCss(css.input, safe3D)]
    /\ UNCHANGED <<arrays, objs, ctor, made, result, calc>>

\* _parseFunctions(input)
CallParseFunctions ==
    /\ css.fn = "_parseFunctions"
    /\ ~css.done
    /\ css' = [css EXCEPT !.done = TRUE, !.out = _parseFunctions(css.input)]
    /\ UNCHANGED <<arrays, objs, ctor, made, result, calc>>

\* _parseArgs(input, unit)
CallParseArgs ==
    /\ css.fn = "_parseArgs"
    /\ ~css.done
    /\ css' = [css EXCEPT !.done = TRUE, !.out = _parseArgs(css.input, css.unit)]
    /\ UNCHANGED <<arrays, objs, ctor, made, result, calc>>

\* TransformMatrix.fromElement(el), of an element whose computed style has
\* the transform css.input
CallFromElement ==
    /\ css.fn = "fromElement"
    /\ ~css.done
    /\ css' = [css EXCEPT !.done = TRUE,
                          !.out = TransformMatrix_fromElement(css.input)]
    /\ UNCHANGED <<arrays, objs, ctor, made, result, calc>>

ParserNext ==
    \/ CallParseCss
    \/ CallParseFunctions
    \/ CallParseArgs
    \/ CallFromElement

ParserSpec == ParserInit /\ [][ParserNext]_vars

(* ------------------------ CssTransformCalculator ---------------------- *)
\* A property of the calculator holds undefined, a TransformMatrix, an
\* array of them, or a function.
Val(kind, v) == [kind |-> kind, v |-> v]
Undefined == Val("undefined", <<>>)

\* TransformMatrix defines no static fromCss
fromCss == UNDEFINED

\* M.transformPoint(x, y)
transformPoint(o, x, y) ==
    IF isIdentity(o) THEN <<x, y>>
    ELSE LET p == matrixVectorProduct(o.v, <<x, y, One>>)
         IN  <<p[1], p[2]>>

\* CssTransformCalculator.fromTransform(transformFunc, options)
fromTransform(transformFunc, options) ==
    [_options |-> [safe3D |-> options.safe3D, safeScale |-> options.safeScale,
                   includeHostFrames |-> FALSE,
                   fromElement |-> FALSE, fromTransform |-> TRUE],
     _transformFunc |-> transformFunc, _el |-> UNDEFINED,
     _scaleWarning |-> FALSE,
     __transforms |-> Undefined, __compositeTransform |-> Undefined,
     __compositeInverse |-> Undefined, __compositeScale |-> Undefined,
     __compositeInverseScale |-> Undefined]

\* CssTransformCalculator.fromElement(el, options)
fromElement(el, options) ==
    [_options |-> [safe3D |-> options.safe3D, safeScale |-> options.safeScale,
                   includeHostFrames |-> options.includeHostFrames,
                   fromElement |-> TRUE, fromTransform |-> FALSE],
     _transformFunc |-> <<>>, _el |-> el, _scaleWarning |-> FALSE,
     __transforms |-> Undefined, __compositeTransform |-> Undefined,
     __compositeInverse |-> Undefined, __compositeScale |-> Undefined,
     __compositeInverseScale |-> Undefined]

\* what a getter or a method gives: the calculator as it leaves it, and the
\* value returned or the error thrown
Gives(c, ret) == [c |-> c, threw |-> FALSE, err |-> "", ret |-> ret]
Throws(c, err) == [c |-> c, threw |-> TRUE, err |-> err, ret |-> Undefined]

\* _traverseDom(): recurse is called as a plain function, so that this is
\* undefined in it and this._options throws once el is not null
_traverseDom(c) ==
    IF c._el = NULL
    THEN Gives([c EXCEPT !.__transforms = Val("array", <<>>)], Val("array", <<>>))
    ELSE Throws(c, TypeError)

\* get _transforms()
_transforms(c) ==
    IF c.__transforms.kind # "undefined" THEN Gives(c, c.__transforms)
    ELSE IF c._options.fromTransform THEN
        (IF fromCss = UNDEFINED THEN Throws(c, TypeError)
         ELSE Gives([c EXCEPT !.__transforms = fromCss], fromCss))
    ELSE IF c._options.fromElement THEN _traverseDom(c)
    ELSE Throws(c, "Cannot perform calculations using this CssTransformCalculator")

\* TransformMatrix.compose(transforms): reduce of an empty array with no
\* initial value throws
composeAll(c, vs) ==
    IF vs = <<>> THEN Throws(c, TypeError)
    ELSE Gives(c, Val("matrix", compose([i \in DOMAIN vs |-> Obj(vs[i], NULL)]).obj.v))

\* get _compositeTransform(): the first read sets the property and returns
\* nothing
_compositeTransform(c) ==
    IF c.__compositeTransform.kind # "undefined" THEN Gives(c, c.__compositeTransform)
    ELSE LET set(t, m) ==
                 IF t.threw THEN t
                 ELSE IF m.threw THEN m
                 ELSE Gives([t.c EXCEPT !.__compositeTransform = m.ret],
                            Undefined)
             composed(t) == set(t, composeAll(t.c, t.ret.v))
         IN  composed(_transforms(c))

\* x.inverse for what a getter returned
inverseOf(c, x) ==
    IF x.kind = "undefined" THEN Throws(c, TypeError)
    ELSE IF x.kind = "function" THEN Gives(c, Undefined)
    ELSE LET inverse(i) ==
                 IF i.threw THEN Throws(c, "Matrix is not invertible")
                 ELSE Gives(c, Val("matrix", i.v))
         IN  inverse(invert(x.v))

\* get _compositeInverse(): the first read sets the property and returns
\* nothing
_compositeInverse(c) ==
    IF c.__compositeInverse.kind # "undefined" THEN Gives(c, c.__compositeInverse)
    ELSE LET set(t, i) ==
                 IF t.threw THEN t
                 ELSE IF i.threw THEN i
                 ELSE Gives([t.c EXCEPT !.__compositeInverse = i.ret], Undefined)
             inverted(t) == set(t, inverseOf(t.c, t.ret))
         IN  inverted(_compositeTransform(c))

\* get _compositeScale()
_compositeScale(c) ==
    IF c.__compositeScale.kind # "undefined" THEN Gives(c, c.__compositeScale)
    ELSE LET warn(d) ==
                 IF d._scaleWarning /\ d._options.safeScale
                 THEN Throws(d, "It may not be possible to correctly calculate the scale of this element.")
                 ELSE Gives(d, d.__compositeScale)
             set(t, s) ==
                 IF t.threw THEN t
                 ELSE IF s.threw THEN s
                 ELSE warn([t.c EXCEPT !.__compositeScale = s.ret])
             composed(t, scales) ==
                 set(t, IF Len(scales) > 0 THEN composeAll(t.c, scales)
                        ELSE Gives(t.c, Val("function", <<>>)))
             filtered(t) ==
                 composed(t, SelectSeq(t.ret.v, LAMBDA v : _getType(v) = "scale"))
         IN  filtered(_transforms(c))

\* get _compositeInverseScale()
_compositeInverseScale(c) ==
    IF c.__compositeInverseScale.kind # "undefined"
    THEN Gives(c, c.__compositeInverseScale)
    ELSE LET set(s, i) ==
                 IF s.threw THEN s
                 ELSE IF i.threw THEN i
                 ELSE Gives([s.c EXCEPT !.__compositeInverseScale = i.ret], i.ret)
             inverted(s) == set(s, inverseOf(s.c, s.ret))
         IN  inverted(_compositeScale(c))

\* x.transformPoint(x, y) for what a property or a getter gave
callTransformPoint(g, x, y) ==
    IF g.threw THEN g
    ELSE IF g.ret.kind # "matrix" THEN Throws(g.c, TypeError)
    ELSE Gives(g.c, transformPoint(Obj(g.ret.v, NULL), x, y))

\* the four queries; transformPoint reads the property __compositeTransform
\* itself, the others read a getter
query(c, op, x, y) ==
    CASE op = "transformPoint" ->
            callTransformPoint(Gives(c, c.__compositeTransform), x, y)
      [] op = "untransformPoint" -> callTransformPoint(_compositeInverse(c), x, y)
      [] op = "scalePoint" -> callTransformPoint(_compositeScale(c), x, y)
      [] op = "unscalePoint" ->
            callTransformPoint(_compositeInverseScale(c), x, y)

MaxQueries == 2    \* queries made of one calculator

\* the points a query is made with: the small ones, and the point the
\* last query returned
QueryPoints ==
    (Pt \X Pt) \cup (IF calc.op # "none" /\ ~calc.threw THEN {calc.out} ELSE {})

CalcInit ==
    /\ arrays = <<identity>>
    /\ objs = <<[_values |-> 1, _type |-> NULL]>>
    /\ ctor = identity
    /\ made = [by |-> "identity", args |-> <<>>]
    /\ result = NoResult
    /\ css = NoCss
    /\ calc = NoCalc

\* CssTransformCalculator.fromTransform(transformFunc, { safe3D, safeScale })
FromTransform ==
    /\ calc.made = "none"
    /\ \E cs \in CallLists(MaxCalls), declaration \in BOOLEAN,
          safe3D \in BOOLEAN, safeScale \in BOOLEAN :
        calc' = [calc EXCEPT
                   !.made = "fromTransform", !.calls = cs,
                   !.c = fromTransform(Written(cs, declaration),
                                       [safe3D |-> safe3D,
                                        safeScale |-> safeScale])]
    /\ UNCHANGED <<arrays, objs, ctor, made, result, css>>

\* CssTransformCalculator.fromElement(el, options), in a document
FromElement ==
    /\ calc.made = "none"
    /\ \E el \in {NULL, "element"}, safe3D \in BOOLEAN, safeScale \in BOOLEAN,
          includeHostFrames \in BOOLEAN :
        calc' = [calc EXCEPT
                   !.made = "fromElement",
                   !.c = fromElement(el, [safe3D |-> safe3D,
                                          safeScale |-> safeScale,
                                          includeHostFrames |-> includeHostFrames])]
    /\ UNCHANGED <<arrays, objs, ctor, made, result, css>>

\* one query of the calculator
Asked(op, p) ==
    LET answered(q) ==
            [calc EXCEPT !.c = q.c, !.op = op, !.arg = p,
                         !.threw = q.threw, !.err = q.err,
                         !.out = IF q.threw THEN <<>> ELSE q.ret,
                         !.n = @ + 1]
    IN  /\ calc.made # "none"
        /\ calc.n < MaxQueries
        /\ calc' = answered(query(calc.c, op, p[1], p[2]))
        /\ UNCHANGED <<arrays, objs, ctor, made, result, css>>

\* calc.transformPoint(x, y)
CalcTransformPoint == \E p \in QueryPoints : Asked("transformPoint", p)

\* calc.untransformPoint(x, y)
CalcUntransformPoint == \E p \in QueryPoints : Asked("untransformPoint", p)

\* calc.scalePoint(x, y)
CalcScalePoint == \E p \in QueryPoints : Asked("scalePoint", p)

\* calc.unscalePoint(x, y)
CalcUnscalePoint == \E p \in QueryPoints : Asked("unscalePoint", p)

CalcNext ==
    \/ FromTransform
    \/ FromElement
    \/ CalcTransformPoint
    \/ CalcUntransformPoint
    \/ CalcScalePoint
    \/ CalcUnscalePoint

CalcSpec == CalcInit /\ [][CalcNext]_vars

(* ------------------------------- claims ------------------------------- *)
\* what the caller got back
Returned(i) == At(result.list[i])
Decomposed == result.op \in {"decompose", "decomposeTransformation"}

\* C1: a matrix with a = d = 1, b = c = 0 and (e, f) # (0, 0), and so every
\* fromTranslation(tx, ty) with (tx, ty) # (0, 0), reads type 'translate'.
C1_TranslationIsTranslate ==
    (/\ result.op = "type"
     /\ M.v[1] = One /\ M.v[4] = One /\ M.v[2] = Zero /\ M.v[3] = Zero
     /\ <<M.v[5], M.v[6]>> # <<Zero, Zero>>)
        => result.str = "translate"

\* The rule of C2, on a matrix with e = f = 0.
C2_Rule(a, b, c, d) ==
    IF a = One /\ d = One /\ b = Zero /\ c = Zero THEN "identity"
    ELSE IF b = Zero /\ c = Zero THEN "scale"
    ELSE IF a = One /\ d = One /\ c # Zero /\ b = Zero THEN "skewX"
    ELSE IF a = One /\ d = One /\ b # Zero /\ c = Zero THEN "skewY"
    ELSE IF /\ \A x \in {a, b, c, d} : x[1] >= -x[2] /\ x[1] <= x[2]
            /\ a = d
            /\ b = Neg(c)
        THEN "rotate"
    ELSE "composite"

C3_ValuesNeverChange ==
    /\ arrays[objs[1]._values] = ctor
    /\ made.by = "new" => ctor = made.args
    /\ (result.op = "cssVector" /\ ~result.mutated)
            => arrays[result.arr] = ctor

\* C3 witness: the caller wrote into a returned array, the matrix is intact
C3_Witness ==
    /\ result.op = "cssVector"
    /\ result.mutated
    /\ arrays[result.arr] # ctor
    /\ objs[1]._type # NULL
    /\ arrays[objs[1]._values] = ctor

\* C4: compose([identity, M]) and compose([M, identity]) have M's six
\* coefficients, and compose([M]) is M itself.
C4_IdentityIsUnit ==
    result.op = "compose"
        => /\ result.str \in {"IM", "MI"} => Returned(1).v = M.v
           /\ result.str = "M" => result.list = <<1>>

\* C4 witness: identity composed on the left of a matrix with all six
\* coefficients set
C4_Witness ==
    /\ result.op = "compose"
    /\ result.str = "IM"
    /\ M.v = <<R(2), R(-1), R(-1), R(2), One, One>>
    /\ Returned(1).v = M.v

\* C5: M.inverse throws exactly when a*d - b*c = 0.
C5_ThrowsIffSingular ==
    result.op = "inverse"
        => (result.threw <=>
                Sub(Mul(M.v[1], M.v[4]), Mul(M.v[2], M.v[3])) = Zero)

\* C5 witness: an invertible matrix with a = 0 is inverted (by a row swap)
C5_Witness ==
    /\ result.op = "inverse"
    /\ ~result.threw
    /\ M.v[1] = Zero

\* C6: the matrix M.inverse returns is the inverse on both sides, the
\* accumulator it is read off keeps the bottom row (0, 0, 1), and the
\* inverse of the inverse has M's coefficients.
C6_InverseIsInverse ==
    /\ (result.op = "inverse" /\ ~result.threw)
            => /\ dotProduct(M.v, Returned(1).v) = identity
               /\ dotProduct(Returned(1).v, M.v) = identity
               /\ result.out[3] = <<Zero, Zero, One>>
    /\ result.op = "inverseInverse"
            => /\ ~result.threw
               /\ Returned(1).v = M.v
               /\ result.out[3] = <<Zero, Zero, One>>

\* C6 witness: the inverse of the inverse of a matrix whose inverse has
\* fractions
C6_Witness ==
    /\ result.op = "inverseInverse"
    /\ ~result.threw
    /\ Sub(Mul(M.v[1], M.v[4]), Mul(M.v[2], M.v[3])) \notin {One, R(-1)}
    /\ M.v[5] # Zero
    /\ Returned(1).v = M.v

\* C7 as claimed: decomposeTransformation(I) and I.decompose() both return
\* the empty list.
C7_Original ==
    (Decomposed /\ M.v = identity) => (~result.threw /\ result.list = <<>>)

\* C7: decomposeTransformation(I) returns the empty list; I.decompose()
\* returns a list of one new matrix with the identity's coefficients.
C7_IdentityDecomposition ==
    /\ (result.op = "decomposeTransformation" /\ M.v = identity)
            => (~result.threw /\ result.list = <<>>)
    /\ (result.op = "decompose" /\ M.v = identity)
            => /\ ~result.threw
               /\ result.list = <<2>>
               /\ Returned(1).v = identity

\* C7 witness: decomposeTransformation ran on the identity matrix
C7_Witness ==
    /\ result.op = "decomposeTransformation"
    /\ M.v = identity
    /\ result.list = <<>>

C9_TranslationPlusSimple ==
    LET lin == TransformMatrix(M.v[1], M.v[2], M.v[3], M.v[4], Zero, Zero)
    IN  (/\ Decomposed
         /\ type(M) = "composite"
         /\ M.v[5] # Zero /\ M.v[6] # Zero
         /\ _getType(lin) \in {"scale", "rotate", "skewX", "skewY"})
            => /\ ~result.threw
               /\ Len(result.list) = 2
               /\ Returned(1).v = fromTranslation(M.v[5], M.v[6])
               /\ Returned(2).v = lin
               /\ type(Returned(2)) = _getType(lin)
               /\ type(Returned(1)) = "translate"

\* C10: for a composite M the decomposition is returned, and composing the
\* list it returned gives M's six coefficients back.
C10_ComposeOfDecomposeIsM ==
    /\ (Decomposed /\ type(M) = "composite") => ~result.threw
    /\ (result.op = "composeDecomposition" /\ type(M) = "composite")
            => Returned(1).v = M.v

(* ------------------------- claims on the parser ----------------------- *)
\* what the transform functions denote, from how the input was written
Parsed(fn) == css.fn = fn /\ css.done

\* the argument is a number with the unit of its class, nothing else
Wellformed(a, class) ==
    /\ a.v # NaN
    /\ a.pre \in {<<>>, <<" ">>}
    /\ a.post \in {<<>>, <<" ">>}
    /\ CASE class = "unitless" -> a.unit = <<>>
         [] class = "length" -> a.unit = w_px
         [] class = "angle" -> a.unit \in {w_deg, w_rad, w_grad, w_turn}

\* the angle an argument denotes: v * pi / 180 for deg, v for rad,
\* v * pi / 200 for grad and v * 2 * pi for turn
AngleOf(a) ==
    CASE a.unit = w_deg -> radians(Div(a.v, R(180)), Zero)
      [] a.unit = w_rad -> radians(Zero, a.v)
      [] a.unit = w_grad -> radians(Div(a.v, R(200)), Zero)
      [] a.unit = w_turn -> radians(Mul(a.v, R(2)), Zero)

TanOf(a) == Div(AngleOf(a).sin, AngleOf(a).cos)

\* the argument class of a function name and the arities it takes
ClassOf(name) ==
    LET n == toLowerCase(name)
    IN  IF n \in {w_translate, w_translate \o <<"x">>, w_translate \o <<"y">>}
        THEN "length"
        ELSE IF n \in {w_rotate, w_skew, w_skew \o <<"x">>, w_skew \o <<"y">>}
        THEN "angle" ELSE "unitless"

Arities(name) ==
    LET n == toLowerCase(name)
    IN  IF n = w_matrix THEN {6}
        ELSE IF n \in {w_translate, w_scale} THEN {1, 2}
        ELSE {1}

\* a call of a supported 2D function with arguments of its class
Supported(c) ==
    /\ toLowerCase(c.name) \in {toLowerCase(n) : n \in Names2D}
    /\ Len(c.args) \in Arities(c.name)
    /\ \A i \in DOMAIN c.args : Wellformed(c.args[i], ClassOf(c.name))

Is3D(c) == toLowerCase(c.name) \in {toLowerCase(n) : n \in Names3D}

\* the matrix a supported call denotes
MatrixOf(c) ==
    LET n == toLowerCase(c.name)
        x == c.args[1].v
        y == c.args[Len(c.args)].v
        t == c.args[1]
    IN  CASE n = w_matrix -> [i \in 1..6 |-> c.args[i].v]
          [] n = w_translate /\ Len(c.args) = 2 -> <<One, Zero, Zero, One, x, y>>
          [] n = w_translate /\ Len(c.args) = 1 -> <<One, Zero, Zero, One, x, Zero>>
          [] n = w_translate \o <<"x">> -> <<One, Zero, Zero, One, x, Zero>>
          [] n = w_translate \o <<"y">> -> <<One, Zero, Zero, One, Zero, x>>
          [] n = w_scale -> <<x, Zero, Zero, y, Zero, Zero>>
          [] n = w_scale \o <<"x">> -> <<x, Zero, Zero, One, Zero, Zero>>
          [] n = w_scale \o <<"y">> -> <<One, Zero, Zero, x, Zero, Zero>>
          [] n = w_rotate ->
                <<AngleOf(t).cos, AngleOf(t).sin, Neg(AngleOf(t).sin),
                  AngleOf(t).cos, Zero, Zero>>
          [] n \in {w_skew, w_skew \o <<"x">>} ->
                <<One, Zero, TanOf(t), One, Zero, Zero>>
          [] n = w_skew \o <<"y">> -> <<One, TanOf(t), Zero, One, Zero, Zero>>

\* C11: parseCss returns one matrix for each supported 2D function of the
\* input, the i-th matrix that of the i-th function, so that the input
\* written in reverse order gives the list in reverse order
C11_OneMatrixPerFunctionInOrder ==
    (/\ Parsed("parseCss")
     /\ \A i \in DOMAIN css.calls : Supported(css.calls[i]))
        => /\ ~css.out.threw
           /\ css.out.matrixes = [i \in DOMAIN css.calls |-> MatrixOf(css.calls[i])]

\* the grammar of the claim: calls name(body) one space apart
AllChars ==
    Word \cup WhiteSpace \cup {"(", ")", ",", ";", ":", ".", "-", "+", "%"}
CallShape ==
    Cat(<<Plus(Chr(Word)), Chr({"("}), Star(Chr(AllChars \ {")"})), Chr({")"})>>)
OneSpaceApart ==
    Cat(<<Bol, CallShape, Star(Cat(<<Chr({" "}), CallShape>>)), Eol>>)
SpacesApart ==
    Cat(<<Bol, Star(Chr({" "})),
          Opt(Cat(<<CallShape, Star(Cat(<<Plus(Chr({" "})), CallShape>>)),
                    Star(Chr({" "}))>>)),
          Eol>>)
Matches(re, s) == Ends(re, s, {1}) # {}

\* the calls a tokenizer input was written with, when it was written as
\* calls with spaces around them
IsCall(p) == Matches(Cat(<<Bol, CallShape, Eol>>), p)
Spaces(g) == \A i \in DOMAIN g : g[i] = " "
WrittenAsCalls ==
    IF css.pieces = <<>> THEN TRUE
    ELSE /\ \A i \in {1, 3, 5} : Spaces(css.pieces[i])
         /\ \A i \in {2, 4} : css.pieces[i] = <<>> \/ IsCall(css.pieces[i])
         /\ (css.pieces[2] # <<>> /\ css.pieces[4] # <<>>) => css.pieces[3] # <<>>
WrittenCalls ==
    IF css.pieces = <<>> THEN [i \in DOMAIN css.calls |-> css.calls[i].s]
    ELSE SelectSeq(<<css.pieces[2], css.pieces[4]>>, LAMBDA p : p # <<>>)

\* C12 as claimed: _parseFunctions returns the tokens exactly for the strings
\* that are calls name(body) with exactly one space between them, and
\* throws on every other string
C12_Original ==
    Parsed("_parseFunctions")
        => (~css.out.threw <=> Matches(OneSpaceApart, css.input))

\* C12: _parseFunctions returns the tokens in order exactly for the strings
\* that are calls name(body) with one or more spaces between them, spaces
\* allowed before the first and after the last, the empty string included;
\* it throws on every other string
C12_TokenizerGrammar ==
    Parsed("_parseFunctions")
        => /\ ~css.out.threw <=> Matches(SpacesApart, css.input)
           /\ css.out.threw => css.out.funcs = <<>>
           /\ WrittenAsCalls
                => (~css.out.threw /\ css.out.funcs = WrittenCalls)

C12_Witness ==
    /\ Parsed("_parseFunctions")
    /\ css.pieces # <<>>
    /\ css.pieces[3] = <<" ", " ">>
    /\ IsCall(css.pieces[2]) /\ IsCall(css.pieces[4])
    /\ css.out.funcs = <<css.pieces[2], css.pieces[4]>>

\* C13: _parseArgs throws on every argument that is not of its unit class:
\* not a bare number in unitless mode, not a number followed by px alone in
\* length mode, not a number followed by deg, rad, grad or turn alone in
\* angle mode
C13_UnitClassEnforced ==
    (/\ Parsed("_parseArgs")
     /\ \E i \in DOMAIN css.args : ~Wellformed(css.args[i], css.unit))
        => css.out.threw

\* C14: an angle argument of value v is v * pi / 180 radians when written
\* with deg, v with rad, v * pi / 200 with grad and v * 2 * pi with turn
C14_AngleFactors ==
    (/\ Parsed("_parseArgs")
     /\ css.unit = "angle"
     /\ \A i \in DOMAIN css.args : Wellformed(css.args[i], "angle"))
        => /\ ~css.out.threw
           /\ Len(css.out.vals) = Len(css.args)
           /\ \A i \in DOMAIN css.args :
                LET v == css.args[i].v
                    u == css.args[i].unit
                    rad == css.out.vals[i]
                IN  /\ u = w_deg => rad.pi = Div(v, R(180)) /\ rad.one = Zero
                    /\ u = w_rad => rad.pi = Zero /\ rad.one = v
                    /\ u = w_grad => rad.pi = Div(v, R(200)) /\ rad.one = Zero
                    /\ u = w_turn => rad.pi = Mul(v, R(2)) /\ rad.one = Zero

C14_Witness ==
    /\ Parsed("_parseArgs")
    /\ css.unit = "angle"
    /\ Len(css.args) = 1
    /\ css.args[1].unit = w_grad /\ css.args[1].v = R(200)
    /\ css.args[1].pre = <<>> /\ css.args[1].post = <<>>
    /\ css.out.vals = <<radians(One, Zero)>>

\* C15: an input with a 3D function among supported 2D functions throws
\* when safe3D is true; when safe3D is false parseCss warns and returns the
\* matrices of the 2D functions in order, those after the 3D function too
C15_ThreeDSkippedOrRefused ==
    (/\ Parsed("parseCss")
     /\ \E i \in DOMAIN css.calls : Is3D(css.calls[i])
     /\ \A i \in DOMAIN css.calls :
            Is3D(css.calls[i]) \/ Supported(css.calls[i]))
        => IF css.safe3D THEN css.out.threw /\ css.out.matrixes = <<>>
           ELSE LET twoD == SelectSeq(css.calls, LAMBDA c : ~Is3D(c))
                IN  /\ ~css.out.threw
                    /\ css.out.warned >= 1
                    /\ css.out.matrixes = [i \in DOMAIN twoD |-> MatrixOf(twoD[i])]

\* C16: parseCss throws and returns no matrix when some function is neither
\* a 3D function nor a supported 2D function with arguments of its class,
\* and a function is refused only once all five parsers have given nothing
C16_UnrecognizedThrows ==
    Parsed("parseCss")
        => /\ (\E i \in DOMAIN css.calls :
                    ~Is3D(css.calls[i]) /\ ~Supported(css.calls[i]))
                => css.out.threw /\ css.out.matrixes = <<>>
           /\ css.out.threw
                => css.out.err \in {"Invalid CSS transform function",
                                    "Cannot parse 3D transforms",
                                    "Invalid CSS transform string"}

\* C17: matrix(n1, ..., n6) of six signed decimal literals gives the one
\* matrix with cssVector [n1, ..., n6]; with fewer or more arguments, or a
\* malformed number, it gives no matrix
C17_MatrixRoundTrip ==
    (/\ Parsed("parseCss")
     /\ Len(css.calls) = 1
     /\ toLowerCase(css.calls[1].name) = w_matrix)
        => IF Supported(css.calls[1])
           THEN /\ ~css.out.threw
                /\ css.out.matrixes = <<[i \in 1..6 |-> css.calls[1].args[i].v]>>
           ELSE css.out.matrixes = <<>>

\* C18: translate(x) and translateX(x) give (1,0,0,1,x,0), translateY(y)
\* (1,0,0,1,0,y), translate(x,y) (1,0,0,1,x,y), scale(s) (s,0,0,s,0,0),
\* scale(x,y) (x,0,0,y,0,0), scaleX(s) (s,0,0,1,0,0), scaleY(s)
\* (1,0,0,s,0,0), skew(t) and skewX(t) (1,0,tan t,1,0,0), skewY(t)
\* (1,tan t,0,1,0,0); a per-axis form with two arguments gives no matrix
C18_ShorthandForms ==
    (/\ Parsed("parseCss")
     /\ Len(css.calls) = 1
     /\ toLowerCase(css.calls[1].name) \notin {w_matrix, w_rotate}
     /\ toLowerCase(css.calls[1].name) \in {toLowerCase(n) : n \in Names2D}
     /\ \A i \in DOMAIN css.calls[1].args :
            Wellformed(css.calls[1].args[i], ClassOf(css.calls[1].name)))
        => LET c == css.calls[1]
               n == toLowerCase(c.name)
               x == c.args[1].v
               y == c.args[Len(c.args)].v
               tan == TanOf(c.args[1])
               M1 == css.out.matrixes[1]
           IN  IF Len(c.args) = 2 /\ n \notin {w_translate, w_scale}
               THEN css.out.matrixes = <<>>
               ELSE /\ ~css.out.threw
                    /\ Len(css.out.matrixes) = 1
                    /\ n = w_translate => M1 = <<One, Zero, Zero, One, x,
                                                 IF Len(c.args) = 2 THEN y ELSE Zero>>
                    /\ n = w_translate \o <<"x">>
                            => M1 = <<One, Zero, Zero, One, x, Zero>>
                    /\ n = w_translate \o <<"y">>
                            => M1 = <<One, Zero, Zero, One, Zero, x>>
                    /\ n = w_scale => M1 = <<x, Zero, Zero, y, Zero, Zero>>
                    /\ n = w_scale \o <<"x">> => M1 = <<x, Zero, Zero, One, Zero, Zero>>
                    /\ n = w_scale \o <<"y">> => M1 = <<One, Zero, Zero, x, Zero, Zero>>
                    /\ n \in {w_skew, w_skew \o <<"x">>}
                            => M1 = <<One, Zero, tan, One, Zero, Zero>>
                    /\ n = w_skew \o <<"y">>
                            => M1 = <<One, tan, Zero, One, Zero, Zero>>

(* ----------------------- claims on the calculator --------------------- *)
\* the transform list of the calculator, from how it was made: the
\* matrixes of the functions written, none for no element
ListKnown ==
    \/ /\ calc.made = "fromTransform"
       /\ \A i \in DOMAIN calc.calls : Supported(calc.calls[i])
    \/ calc.made = "fromElement" /\ calc.c._el = NULL

TransformList ==
    IF calc.made = "fromTransform"
    THEN [i \in DOMAIN calc.calls |-> MatrixOf(calc.calls[i])]
    ELSE <<>>

\* the product of a list of matrixes, the first applied last
ProductOf(vs) ==
    IF vs = <<>> THEN Obj(identity, NULL)
    ELSE compose([i \in DOMAIN vs |-> Obj(vs[i], NULL)]).obj

ScaleList == SelectSeq(TransformList, LAMBDA v : _getType(v) = "scale")

\* C19: on a calculator with an invertible composite transform,
\* transformPoint(x, y) is the composition of the transform list applied to
\* (x, y), and untransformPoint gives the point that transformPoint takes
\* to its argument
C19_UntransformInvertsTransform ==
    (/\ calc.made = "fromTransform"
     /\ calc.calls # <<>>
     /\ ListKnown
     /\ ~invert(ProductOf(TransformList).v).threw
     /\ calc.op \in {"transformPoint", "untransformPoint"})
        => /\ ~calc.threw
           /\ calc.op = "transformPoint"
                => calc.out = transformPoint(ProductOf(TransformList),
                                             calc.arg[1], calc.arg[2])
           /\ calc.op = "untransformPoint"
                => transformPoint(ProductOf(TransformList),
                                  calc.out[1], calc.out[2]) = calc.arg

\* C20: scalePoint(x, y) is the product of the scale-type matrixes of the
\* transform list applied to (x, y), (x, y) itself when there is none, and
\* unscalePoint gives the point that scalePoint takes to its argument
C20_ScalePointAppliesScales ==
    (/\ ListKnown
     /\ ~invert(ProductOf(ScaleList).v).threw
     /\ calc.op \in {"scalePoint", "unscalePoint"})
        => /\ ~calc.threw
           /\ calc.op = "scalePoint"
                => calc.out = transformPoint(ProductOf(ScaleList),
                                             calc.arg[1], calc.arg[2])
           /\ calc.op = "unscalePoint"
                => transformPoint(ProductOf(ScaleList),
                                  calc.out[1], calc.out[2]) = calc.arg

(* ------------------ claims on the computed style read ----------------- *)
\* C21: fromElement on a computed style 'matrix(a, b, c, d, e, f)' gives
\* the matrix of the six numbers written, negative ones included; 'none'
\* gives no matrix, and a style with matrix3d throws.
C21_ComputedStyleRead ==
    Parsed("fromElement") =>
        /\ css.input = w_none => (~css.out.threw /\ css.out.null)
        /\ (css.calls # <<>> /\ css.calls[1].name = w_matrix)
              => /\ ~css.out.threw
                 /\ ~css.out.null
                 /\ css.out.v = [i \in 1..6 |-> css.calls[1].args[i].v]
        /\ (css.calls # <<>> /\ css.calls[1].name = w_matrix \o w_3d)
              => css.out.threw

(* ------------------ claims about types and products ------------------- *)
\* C22: the type a matrix reports is a function of its six coefficients
\* alone: a stored type is the type of the stored coefficients, matrices with
\* equal coefficients report equal types, the result of dotProduct and of
\* invert reports the type of its own coefficients, and a read after other
\* operations gives what the first read gave.
C22_TypeIsFunctionOfCoefficients ==
    /\ \A i \in DOMAIN objs :
          objs[i]._type # NULL => objs[i]._type = _getType(At(i).v)
    /\ \A i \in DOMAIN objs, j \in DOMAIN objs :
          At(i).v = At(j).v => type(At(i)) = type(At(j))
    /\ (result.op \in {"dotProduct", "inverse", "inverseInverse", "compose"}
            /\ ~result.threw)
          => type(Returned(1)) = _getType(Returned(1).v)
    /\ result.op = "type" => result.str = _getType(ctor)

\* two quarter turns multiplied: both operands are of type 'rotate', the
\* product is of type 'scale'
C22_Witness ==
    /\ result.op = "dotProduct"
    /\ objs[1]._type = "rotate"
    /\ _getType(result.arg) = "rotate"
    /\ Returned(1).v = <<R(-1), Zero, Zero, R(-1), Zero, Zero>>
    /\ type(Returned(1)) = "scale"

\* the product of C23, coefficient by coefficient
C23_Product(v1, v2) ==
    LET a1 == v1[1]  b1 == v1[2]  c1 == v1[3]
        d1 == v1[4]  e1 == v1[5]  f1 == v1[6]
        a2 == v2[1]  b2 == v2[2]  c2 == v2[3]
        d2 == v2[4]  e2 == v2[5]  f2 == v2[6]
    IN  <<Add(Mul(a1, a2), Mul(c1, b2)),
          Add(Mul(b1, a2), Mul(d1, b2)),
          Add(Mul(a1, c2), Mul(c1, d2)),
          Add(Mul(b1, c2), Mul(d1, d2)),
          Add(Add(Mul(a1, e2), Mul(c1, f2)), e1),
          Add(Add(Mul(b1, e2), Mul(d1, f2)), f1)>>

\* the operands of the last dotProduct, in the order they were given
C23_Left == IF result.str = "M*X" THEN M.v ELSE result.arg
C23_Right == IF result.str = "M*X" THEN result.arg ELSE M.v

\* C23: dotProduct(M1, M2) has the coefficients of the affine matrix
\* product M1 * M2, and the third row of the product is (0, 0, 1).
C23_DotProductIsMatrixProduct ==
    result.op = "dotProduct" =>
        /\ Returned(1).v = C23_Product(C23_Left, C23_Right)
        /\ LET M1 == matrix(C23_Left)
               M2 == matrix(C23_Right)
           IN  [j \in 1..3 |->
                    product(M1[3], <<M2[1][j], M2[2][j], M2[3][j]>>)]
                 = <<Zero, Zero, One>>

\* a product that differs from the product in the other order
C23_Witness ==
    /\ result.op = "dotProduct"
    /\ Returned(1).v = C23_Product(C23_Left, C23_Right)
    /\ Returned(1).v # C23_Product(C23_Right, C23_Left)
    /\ Returned(1).v # dotProduct(C23_Right, C23_Left)

\* C24: transformPoint(x, y) is (a*x + c*y + e, b*x + d*y + f), on the
\* identity too, and matrixVectorProduct leaves the third component of a
\* vector as it was.
C24_TransformPointIsAffine ==
    result.op = "transformPoint" =>
        LET x == result.arg[1]
            y == result.arg[2]
            a == M.v[1]  b == M.v[2]  c == M.v[3]
            d == M.v[4]  e == M.v[5]  f == M.v[6]
        IN  /\ result.out = <<Add(Add(Mul(a, x), Mul(c, y)), e),
                              Add(Add(Mul(b, x), Mul(d, y)), f)>>
            /\ \A z \in Pt : matrixVectorProduct(M.v, <<x, y, z>>)[3] = z

\* a point moved by a matrix with all of a, b, c, d, e, f at work
C24_Witness ==
    /\ result.op = "transformPoint"
    /\ M.v = <<R(2), R(-1), One, R(2), One, Zero>>
    /\ result.arg = <<One, One>>
    /\ result.out = <<R(4), One>>

(* -------------------- claims about the decomposition ------------------ *)
\* the parts of the matrix under study that the decomposition works on
C25_Translation == fromTranslation(M.v[5], M.v[6])
C25_Linear == TransformMatrix(M.v[1], M.v[2], M.v[3], M.v[4], Zero, Zero)
C25_Det == Sub(Mul(M.v[1], M.v[4]), Mul(M.v[2], M.v[3]))
C25_QR == _qrDecomposition(M.v[1], M.v[2], M.v[3], M.v[4], C25_Det)
C25_LU == _luDecomposition(M.v[1], M.v[2], M.v[3], M.v[4], C25_Det)

\* a composite matrix went through the decomposition, and both
\* factorizations were computed
C25_BothComputed ==
    /\ Decomposed
    /\ type(M) = "composite"
    /\ ~(/\ M.v[5] # Zero
         /\ M.v[6] # Zero
         /\ _getType(C25_Linear) # "composite")

\* the score of a candidate: the absolute skew coefficients of its skewX and
\* skewY elements summed up
RECURSIVE C25_Score(_)
C25_Score(ms) ==
    IF ms = <<>> THEN Zero
    ELSE LET v == Head(ms)
             t == _getType(v)
         IN  Add(IF t = "skewX" THEN <<Abs(v[3][1]), v[3][2]>>
                 ELSE IF t = "skewY" THEN <<Abs(v[2][1]), v[2][2]>>
                 ELSE Zero,
                 C25_Score(Tail(ms)))

\* the coefficients of the matrices of a list that are not the identity
C25_Kept(ms) ==
    LET os == filterIdentity(ms)
    IN  [i \in DOMAIN os |-> os[i].v]

\* the coefficients of the matrices the decomposition returned
C25_Returned == [i \in DOMAIN result.list |-> Returned(i).v]

\* C25: when both factorizations are computed, the LU candidate is returned
\* only when its skew score is strictly smaller than the QR candidate's; on
\* equal scores the QR candidate is returned.
C25_SmallerSkewWins ==
    C25_BothComputed =>
        /\ ~result.threw
        /\ C25_Returned =
              C25_Kept(<<C25_Translation>> \o
                        (IF Lt(C25_Score(C25_LU), C25_Score(C25_QR))
                         THEN C25_LU ELSE C25_QR))

\* C26: no element of the list returned for a composite matrix is an
\* identity matrix, on the early return and on the filtered return.
C26_NoIdentityElement ==
    (Decomposed /\ type(M) = "composite" /\ ~result.threw)
        => \A i \in DOMAIN result.list : ~isIdentity(Returned(i))

\* C27: for a composite matrix with (e, f) # (0, 0) the first element
\* returned is the translation (1,0,0,1,e,f) and the later elements, in the
\* order of their factorization, have no translation; with e = f = 0 no
\* element has a translation.
C27_TranslationFirst ==
    (Decomposed /\ type(M) = "composite")
        => /\ ~result.threw
           /\ LET rest == IF <<M.v[5], M.v[6]>> # <<Zero, Zero>>
                          THEN Tail(C25_Returned) ELSE C25_Returned
              IN  /\ <<M.v[5], M.v[6]>> # <<Zero, Zero>>
                        => /\ result.list # <<>>
                           /\ C25_Returned[1] = C25_Translation
                  /\ \A i \in DOMAIN rest :
                        rest[i][5] = Zero /\ rest[i][6] = Zero
                  /\ rest \in {C25_Kept(C25_QR), C25_Kept(C25_LU),
                               <<C25_Linear>>}

\* C29: a matrix whose type reads 'rotate' is a rotation: a = d, b = -c and
\* a * a + b * b = 1; (1, 1, -1, 1, 0, 0) does not read 'rotate'.
C29_RotateIsRotation ==
    (result.op = "type" /\ result.str = "rotate")
        => /\ M.v[1] = M.v[4]
           /\ M.v[2] = Neg(M.v[3])
           /\ Add(Mul(M.v[1], M.v[1]), Mul(M.v[2], M.v[2])) = One
           /\ M.v # <<One, One, R(-1), One, Zero, Zero>>

\* C30: every element a decomposition returns is of type translate, scale,
\* rotate, skewX or skewY, and the translation split off a composite matrix
\* is of type translate.
C30_ElementsAreElementary ==
    (Decomposed /\ ~result.threw)
        => /\ \A i \in DOMAIN result.list :
                type(Returned(i)) \in
                    {"translate", "scale", "rotate", "skewX", "skewY"}
           /\ (/\ type(M) = "composite"
               /\ result.list # <<>>
               /\ Returned(1).v = C25_Translation)
                    => type(Returned(1)) = "translate"

(* ------------------ claims on the order of the queries ---------------- *)
\* C28: on a calculator made by fromTransform from a parseable, invertible
\* transform, transformPoint and untransformPoint succeed whatever was
\* asked before, and return what the same query returns when it is the
\* first one made of a new calculator.
C28_QueriesIndependentOfHistory ==
    (/\ calc.made = "fromTransform"
     /\ calc.calls # <<>>
     /\ ListKnown
     /\ ~invert(ProductOf(TransformList).v).threw
     /\ calc.n \in 1..MaxQueries
     /\ calc.op \in {"transformPoint", "untransformPoint"})
        => /\ ~calc.threw
           /\ LET same(first) == ~first.threw /\ calc.out = first.ret
              IN  same(query(fromTransform(calc.c._transformFunc,
                                           [safe3D |-> calc.c._options.safe3D,
                                            safeScale |->
                                                calc.c._options.safeScale]),
                             calc.op, calc.arg[1], calc.arg[2]))

====
